---- MODULE Spec2Model ----
(***************************************************************************)
(* Monitor_news: launch/news monitoring (MonitoringService), the persisted *)
(* store (Coin, News, TelegramMessage, Tweet collections) and the publish  *)
(* passes (TelegramService, TweetService).                                  *)
(*                                                                         *)
(* Every await of a handler is one step of the invocation that runs it;    *)
(* the outcome of every send and of every store read or write is chosen    *)
(* by the environment (it succeeds or it throws).                          *)
(***************************************************************************)
EXTENDS Integers, Sequences, FiniteSets, Bags, TLC

(* ------------------------------ bounds -------------------------------- *)

\* handler invocations started in one behaviour
MaxRuns == 2
\* launch / publish times are 1..MaxTime
MaxTime == 2
\* candidates in one scanner result
MaxScan == 2
\* items in one list of the news aggregator
MaxBatch == 1
\* contract / pool addresses are 1..MaxAddr
MaxAddr == 1
\* Sui event sequence numbers are 1..MaxSeq
MaxSeq == 2
\* news ids are 1..MaxNewsId
MaxNewsId == 2
\* documents of the store a publish pass starts from
MaxCoins == 2
MaxNews == 1
\* news of the store the repeated passes start from
MaxBacklog == 2
\* documents of the stores the selection scenarios start from
MaxSelCoins == 8
MaxSelNews == 21
\* block numbers are 1..MaxBlock
MaxBlock == 103
\* getBlockWithCache calls a caller makes in one behaviour
MaxCalls == 3
\* logs one getLogs query of the factory or of mint transfers returns
MaxLogs == 2
\* logs one getLogs query of a router, events one Sui event query returns
MaxRouterLogs == 1
\* live getBlock attempts of one getBlockWithCache call the model follows
MaxAttempts == 4
\* records one Sui scan collects
MaxSuiCoins == 3
\* items one news source returns
MaxFetch == 2

(* ------------------------- program constants -------------------------- *)

\* .limit(2) of the launch queries, .limit(1) of the news queries
CoinLimit == 2
NewsLimit == 1
\* .limit(20) of processGroupNews
GroupFetchLimit == 20

\* TelegramClient.channelId (TELEGRAM_CHANNEL_ID) and the destination that
\* stands for Twitter in the delivery log
ChannelId == "channel"
Twitter == "twitter"
\* the values TELEGRAM_GROUP_ID can have: unset, or a chat other than the channel
GroupIds == {"", "group"}

Procs == {1, 2}
Times == 1..MaxTime

\* OnchainPairScannerService.MIN_REQUEST_INTERVAL (ms)
MIN_REQUEST_INTERVAL == 100
\* `let retries = 3` of getBlockWithCache
Retries == 3
\* `this.blockCache.size > 100` of getBlockWithCache
CacheLimit == 100

VARIABLES
    enabled,            \* TelegramClient.enabled
    groupId,            \* TelegramClient.groupId
    coins,              \* the Coin collection
    news,               \* the News collection
    telegramMessages,   \* the TelegramMessage collection (a bag of documents)
    tweets,             \* the Tweet collection (a bag of documents)
    delivered,          \* the messages Twitter and Telegram accepted (a bag)
    pc,                 \* pc[p]: where invocation p stands
    loc,                \* loc[p]: the locals of invocation p
    runs,               \* handler invocations started so far
    lastCycle,          \* per network: what the last finished scan-and-save cycle did
    blockCache,         \* OnchainPairScannerService.blockCache: its keys, in insertion order
    sinceRequest,       \* Date.now() - lastRequestTime, up to MIN_REQUEST_INTERVAL
    sinceRpc,           \* time since the last chain RPC call started, up to MIN_REQUEST_INTERVAL
    rpcGap,             \* sinceRpc when the last chain RPC call started (-1: first call)
    call,               \* the getBlockWithCache call under way
    requested,          \* block numbers of the getBlockWithCache calls that returned
    scan,               \* the getRecentBNBPairCreations / getRecentSuiPairs call under way
    fetch               \* the EnhancedCryptoNewsService.getAllNews call under way

\* the services and the store; the scanner instance
service == <<enabled, groupId, coins, news, telegramMessages, tweets, delivered,
             pc, loc, runs, lastCycle>>
scanner == <<blockCache, sinceRequest, sinceRpc, rpcGap, call, requested, scan>>
fetcher == <<fetch>>
vars == <<service, scanner, fetcher>>

store == <<coins, news, telegramMessages, tweets>>
config == <<enabled, groupId>>

(* ------------------------------ helpers ------------------------------- *)

\* the bag B with one more copy of the document d
Insert(B, d) == B (+) SetToBag({d})

\* the set of sequences over S of length at most n
SeqsUpTo(S, n) == UNION {[1..k -> S] : k \in 0..n}

\* the timestamp a query sorts on: Coin.launchTime, News.publishedAt
TimeOf(r) == IF "launchTime" \in DOMAIN r THEN r.launchTime ELSE r.publishedAt

\* Model.find(...).sort({time: -1}).limit(L): the documents of S by descending
\* time, at most L of them. The store leaves the order of documents with equal
\* sort keys open, so every such order is a possible result.
RECURSIVE SortLimit(_, _)
SortLimit(S, L) ==
    IF L = 0 \/ S = {} THEN {<<>>}
    ELSE UNION {{<<x>> \o t : t \in SortLimit(S \ {x}, L - 1)} :
                x \in {y \in S : \A z \in S : TimeOf(y) >= TimeOf(z)}}

(* ---------------------------- the documents --------------------------- *)

\* new Coin(coinData): the schema defaults isPosted and isTelegramPosted to false
NewCoin(coinData) ==
    [id |-> coinData.id, contractAddress |-> coinData.contractAddress,
     network |-> coinData.network, launchTime |-> coinData.launchTime,
     isPosted |-> FALSE, isTelegramPosted |-> FALSE]

\* new News(newsItem): the title is stored as given
NewNews(newsItem) ==
    [id |-> newsItem.id, title |-> newsItem.title,
     publishedAt |-> newsItem.publishedAt, network |-> newsItem.network,
     isPosted |-> FALSE, isTelegramPosted |-> FALSE]

\* new TelegramMessage({coinId | newsId, type, chatId, isPosted: true, ...})
NewTelegramMessage(type, ref, chatId) ==
    [type |-> type, ref |-> ref, chatId |-> chatId, isPosted |-> TRUE]

\* new Tweet({coinId | newsId, type, isPosted: true, ...})
NewTweet(type, ref) == [type |-> type, ref |-> ref, isPosted |-> TRUE]

\* one message accepted by a platform
Delivery(dest, type, ref) == [dest |-> dest, type |-> type, ref |-> ref]

\* the collection a content kind lives in
Collection(type) == IF type = "launch" THEN coins ELSE news

\* the convenience flag of a destination: isTelegramPosted for the channel,
\* isPosted for Twitter
Flag(dest, r) == IF dest = Twitter THEN r.isPosted ELSE r.isTelegramPosted

\* a mutant of Unposted: the query asks for the documents no destination
\* has posted
UnpostedAnywhere(dest, type) ==
    {r \in Collection(type) : ~r.isPosted /\ ~r.isTelegramPosted}

\* Coin.find({isTelegramPosted: false}), Coin.find({isPosted: false}),
\* News.find({isTelegramPosted: false}), News.find({isPosted: false})
Unposted(dest, type) == {r \in Collection(type) : ~Flag(dest, r)}

\* TelegramService.isNewsPostedToDestination
isNewsPostedToDestination(newsId, chatId) ==
    \E m \in BagToSet(telegramMessages) :
        m.type = "news" /\ m.ref = newsId /\ m.chatId = chatId /\ m.isPosted

\* the first element of the sequence s that satisfies Test, or <<>> for none
RECURSIVE FirstUnposted(_, _)
FirstUnposted(s, chatId) ==
    IF s = <<>> THEN <<>>
    ELSE IF ~isNewsPostedToDestination(Head(s).id, chatId) THEN <<Head(s)>>
    ELSE FirstUnposted(Tail(s), chatId)

\* News.find({network: {$in: ["general", "sui", "bnb"]}}).sort({publishedAt: -1}).limit(20)
GroupCandidates ==
    SortLimit({n \in news : n.network \in {"general", "sui", "bnb"}}, GroupFetchLimit)

(* --------------------------- invocations ------------------------------ *)

\* the locals of an invocation that is not running
IdleLoc == [dest |-> "", type |-> "", queue |-> <<>>, net |-> "",
            scan |-> <<>>, saved |-> 0, err |-> FALSE]

\* a handler is entered: the caller (cron callback, HTTP endpoint) starts it
Enter(p, to, l) ==
    /\ pc[p] = "idle"
    /\ runs < MaxRuns
    /\ runs' = runs + 1
    /\ pc' = [pc EXCEPT ![p] = to]
    /\ loc' = [loc EXCEPT ![p] = l]

\* a handler returns or throws to its caller, which logs and goes on
Return(p) ==
    /\ pc' = [pc EXCEPT ![p] = "idle"]
    /\ loc' = [loc EXCEPT ![p] = IdleLoc]

Goto(p, to, l) ==
    /\ pc' = [pc EXCEPT ![p] = to]
    /\ loc' = [loc EXCEPT ![p] = l]

(* ------------- channel and Twitter passes (flag-selected) ------------- *)

\* processNewCoinMessages / processNewsMessages / processNewCoinTweets /
\* processNewsTweets, the query: the unposted documents of the pass's kind,
\* most recent first, at most `limit`; a query that throws ends the pass.
FindUnposted(p, dest, type, limit) ==
    /\ pc[p] = "find" /\ loc[p].dest = dest /\ loc[p].type = type
    /\ UNCHANGED <<config, store, delivered, runs, lastCycle>>
    /\ \/ Return(p)
       \/ \E s \in SortLimit(Unposted(dest, type), limit) :
            LET ids == [i \in 1..Len(s) |-> s[i].id] IN
            IF ids # <<>> THEN Goto(p, "send", [loc[p] EXCEPT !.queue = ids])
            ELSE IF type = "launch"
                 THEN Goto(p, "find", [loc[p] EXCEPT !.type = "news"])
                 ELSE Return(p)

\* the loop is left at the document at hand: the documents after it are
\* not visited
NextItemNone(p) ==
    IF loc[p].type = "launch"
    THEN Goto(p, "find", [loc[p] EXCEPT !.type = "news", !.queue = <<>>])
    ELSE Return(p)

\* the loop goes on to its next document; after the last launch the news
\* sub-pass runs, after the last news item the pass returns
NextItem(p) ==
    IF Tail(loc[p].queue) # <<>>
    THEN Goto(p, "send", [loc[p] EXCEPT !.queue = Tail(@)])
    ELSE IF loc[p].type = "launch"
         THEN Goto(p, "find", [loc[p] EXCEPT !.type = "news", !.queue = <<>>])
         ELSE Return(p)

\* a mutant of sendMessage: the Bot API is called whether Telegram is
\* enabled or not
sendMessageAlways(p, chatId, onSent, onNull) ==
    \/ /\ delivered' = Insert(delivered,
                              Delivery(chatId, loc[p].type, Head(loc[p].queue)))
       /\ onSent
    \/ /\ delivered' = delivered
       /\ onNull

\* TelegramClient.sendMessage: a message id, or null when Telegram is disabled
\* or the Bot API call throws
sendMessage(p, chatId, onSent, onNull) ==
    \/ /\ enabled
       /\ delivered' = Insert(delivered,
                              Delivery(chatId, loc[p].type, Head(loc[p].queue)))
       /\ onSent
    \/ /\ delivered' = delivered
       /\ onNull

\* TwitterClient.tweet: a tweet id, or null when both API versions throw
tweet(p, onSent, onNull) ==
    \/ /\ delivered' = Insert(delivered,
                              Delivery(Twitter, loc[p].type, Head(loc[p].queue)))
       /\ onSent
    \/ /\ delivered' = delivered
       /\ onNull

\* a mutant of Send: the fact is recorded whether the send returned an id
\* or null
SendUnconfirmed(p, dest) ==
    /\ pc[p] = "send" /\ loc[p].dest = dest
    /\ UNCHANGED <<config, store, runs, lastCycle>>
    /\ IF dest = Twitter
       THEN tweet(p, Goto(p, "record", loc[p]), Goto(p, "record", loc[p]))
       ELSE sendMessage(p, ChannelId, Goto(p, "record", loc[p]), Goto(p, "record", loc[p]))

\* the send of the current document of a channel or Twitter pass
Send(p, dest) ==
    /\ pc[p] = "send" /\ loc[p].dest = dest
    /\ UNCHANGED <<config, store, runs, lastCycle>>
    /\ IF dest = Twitter
       THEN tweet(p, Goto(p, "record", loc[p]), NextItem(p))
       ELSE sendMessage(p, ChannelId, Goto(p, "record", loc[p]), NextItem(p))

\* a mutant of Record: a failed save of the fact is ignored and the flag is
\* set all the same
RecordOrNot(p, dest) ==
    /\ pc[p] = "record" /\ loc[p].dest = dest
    /\ UNCHANGED <<config, store, delivered, runs, lastCycle>>
    /\ Goto(p, "flag", loc[p])

\* message.save() / tweet.save() after a successful send: the publication
\* fact is inserted, or the write throws and the loop's catch goes on
Record(p, dest) ==
    /\ pc[p] = "record" /\ loc[p].dest = dest
    /\ UNCHANGED <<config, coins, news, delivered, runs, lastCycle>>
    /\ \/ /\ IF dest = Twitter
             THEN /\ tweets' = Insert(tweets,
                                      NewTweet(loc[p].type, Head(loc[p].queue)))
                  /\ UNCHANGED telegramMessages
             ELSE /\ telegramMessages' =
                        Insert(telegramMessages,
                               NewTelegramMessage(loc[p].type, Head(loc[p].queue),
                                                  ChannelId))
                  /\ UNCHANGED tweets
          /\ Goto(p, "flag", loc[p])
       \/ /\ UNCHANGED <<telegramMessages, tweets>>
          /\ NextItem(p)

\* a mutant of SetFlag: the save writes the whole document as it was
\* loaded, the other flag still false
SetFlagWhole(S, id, dest) ==
    {IF r.id # id THEN r
     ELSE IF dest = Twitter
          THEN [r EXCEPT !.isPosted = TRUE, !.isTelegramPosted = FALSE]
          ELSE [r EXCEPT !.isTelegramPosted = TRUE, !.isPosted = FALSE] : r \in S}

\* a mutant of SetFlag: the save writes both flags of the document
SetFlagBoth(S, id, dest) ==
    {IF r.id # id THEN r
     ELSE IF dest \in {Twitter, ChannelId}
          THEN [r EXCEPT !.isPosted = TRUE, !.isTelegramPosted = TRUE]
          ELSE r : r \in S}

\* coin.isTelegramPosted = true / coin.isPosted = true (news alike) on the
\* document with the given id
SetFlag(S, id, dest) ==
    {IF r.id # id THEN r
     ELSE IF dest = Twitter THEN [r EXCEPT !.isPosted = TRUE]
     ELSE [r EXCEPT !.isTelegramPosted = TRUE] : r \in S}

\* coin.save() / news.save() of the flag: written, or the write throws
MarkPosted(p, dest) ==
    /\ pc[p] = "flag" /\ loc[p].dest = dest
    /\ UNCHANGED <<config, telegramMessages, tweets, delivered, runs, lastCycle>>
    /\ \/ IF loc[p].type = "launch"
          THEN /\ coins' = SetFlag(coins, Head(loc[p].queue), dest)
               /\ UNCHANGED news
          ELSE /\ news' = SetFlag(news, Head(loc[p].queue), dest)
               /\ UNCHANGED coins
       \/ UNCHANGED <<coins, news>>
    /\ NextItem(p)

\* processPendingMessages is entered: it returns at once when Telegram is
\* disabled, else the launch sub-pass starts
StartMessages(p) ==
    /\ Enter(p, IF enabled THEN "find" ELSE "idle",
             IF enabled THEN [IdleLoc EXCEPT !.dest = ChannelId, !.type = "launch"]
             ELSE IdleLoc)
    /\ UNCHANGED <<config, store, delivered, lastCycle>>

\* TelegramService.processPendingMessages
processPendingMessages(p) ==
    \/ StartMessages(p)
    \/ FindUnposted(p, ChannelId, "launch", CoinLimit)
    \/ FindUnposted(p, ChannelId, "news", NewsLimit)
    \/ Send(p, ChannelId)
    \/ Record(p, ChannelId)
    \/ MarkPosted(p, ChannelId)

\* processPendingTweets is entered: the launch sub-pass starts
StartTweets(p) ==
    /\ Enter(p, "find", [IdleLoc EXCEPT !.dest = Twitter, !.type = "launch"])
    /\ UNCHANGED <<config, store, delivered, lastCycle>>

\* TweetService.processPendingTweets
processPendingTweets(p) ==
    \/ StartTweets(p)
    \/ FindUnposted(p, Twitter, "launch", CoinLimit)
    \/ FindUnposted(p, Twitter, "news", NewsLimit)
    \/ Send(p, Twitter)
    \/ Record(p, Twitter)
    \/ MarkPosted(p, Twitter)

(* --------------------- group pass (fact-selected) --------------------- *)

\* a mutant of AfterGroupPost: the group post marks the item as posted to
\* Telegram, as the channel pass does
AfterGroupPostMarked(S, newsId) ==
    {IF r.id = newsId THEN [r EXCEPT !.isTelegramPosted = TRUE] ELSE r : r \in S}

\* the News collection after a successful group post of newsId: the code
\* leaves newsToPost.isTelegramPosted alone ("Do NOT set ...")
AfterGroupPost(S, newsId) == S

\* processGroupNews is entered: with no group id it logs and returns
StartGroupNews(p) ==
    /\ Enter(p, IF groupId # "" THEN "groupFind" ELSE "idle",
             IF groupId # "" THEN [IdleLoc EXCEPT !.dest = groupId, !.type = "news"]
             ELSE IdleLoc)
    /\ UNCHANGED <<config, store, delivered, lastCycle>>

\* processGroupNews, the selection: the 20 most recent news, then the first
\* of them without a fact for the group; a query that throws is rethrown
SelectGroupNews(p) ==
    /\ pc[p] = "groupFind"
    /\ UNCHANGED <<config, store, delivered, runs, lastCycle>>
    /\ \/ Return(p)
       \/ \E allNews \in GroupCandidates :
             LET newsToPost == FirstUnposted(allNews, groupId) IN
             IF newsToPost = <<>> THEN Return(p)
             ELSE Goto(p, "groupSend",
                       [loc[p] EXCEPT !.queue = <<newsToPost[1].id>>])

\* TelegramService.processGroupNews
processGroupNews(p) ==
    \/ StartGroupNews(p)
    \/ SelectGroupNews(p)
    \/ /\ pc[p] = "groupSend"
       /\ UNCHANGED <<config, store, runs, lastCycle>>
       /\ sendMessage(p, groupId, Goto(p, "groupRecord", loc[p]), Return(p))
    \/ \* message.save() with chatId: groupId, or the write throws
       /\ pc[p] = "groupRecord"
       /\ UNCHANGED <<config, coins, tweets, delivered, runs, lastCycle>>
       /\ \/ /\ telegramMessages' =
                   Insert(telegramMessages,
                          NewTelegramMessage("news", Head(loc[p].queue), groupId))
             /\ news' = AfterGroupPost(news, Head(loc[p].queue))
          \/ UNCHANGED <<telegramMessages, news>>
       /\ Return(p)

(* ------------------------- what upstream returns ---------------------- *)

Networks == <<"sui", "bnb">>

\* parseSuiEvent: id is `${contractAddress}-${eventSeq}`
SuiCoin(addr, eventSeq, t) ==
    [id |-> <<addr, eventSeq>>, symbol |-> "SYM", network |-> "sui",
     contractAddress |-> addr, launchTime |-> t]

\* decodeFactoryPairLog: id is the lower-cased pair address, and so is
\* contractAddress; the symbol is never empty
BnbPairCoin(pair, t) ==
    [id |-> <<pair>>, symbol |-> "SYM", network |-> "bnb",
     contractAddress |-> pair, launchTime |-> t]

\* what a scanner can return for a network, as the elements of its result
ScannerCoins(network) ==
    IF network = "sui"
    THEN {SuiCoin(a, q, t) : a \in 1..MaxAddr, q \in 1..MaxSeq, t \in Times}
    ELSE {BnbPairCoin(a, t) : a \in 1..MaxAddr, t \in Times}

\* a title is a text in some letter case, with or without surrounding blanks
Titles == [text : {"t"}, upper : BOOLEAN, padded : BOOLEAN]
\* String.prototype.trim and String.prototype.toLowerCase
Trim(title) == [title EXCEPT !.padded = FALSE]
ToLowerCase(title) == [title EXCEPT !.upper = FALSE]

\* the items of the aggregator's list of a path ("general" or "sui")
NewsItems(network) ==
    {[id |-> <<i>>, title |-> ti, publishedAt |-> t, network |-> network] :
        i \in 1..MaxNewsId, ti \in Titles, t \in Times}

(* -------------------- MonitoringService: launches --------------------- *)

\* MonitoringService.filterNewPairs
filterNewPairs(data) ==
    SelectSeq(data, LAMBDA c : c.symbol # "" /\ c.network # "")

\* what lastCycle holds for a network before its first cycle
NoCycle == [ran |-> FALSE, data |-> <<>>, saved |-> 0, err |-> FALSE, repeat |-> "no"]

\* the scan-and-save cycle of loc[p].net ends having saved `saved` records
\* (err: an insert or lookup of it threw for a reason other than a duplicate
\* id); monitorNewLaunches goes on to the next network, or returns
EndCycle(p, data, saved, err) ==
    LET net == loc[p].net
        last == lastCycle[net] IN
    /\ lastCycle' = [lastCycle EXCEPT ![net] =
            [ran |-> TRUE, data |-> data, saved |-> saved, err |-> err,
             repeat |-> IF ~last.ran \/ last.data # data THEN "no"
                        ELSE IF last.err THEN "afterError" ELSE "clean"]]
    /\ IF net = Networks[1]
       THEN Goto(p, "scan", [IdleLoc EXCEPT !.net = Networks[2]])
       ELSE Return(p)

\* the loop of saveNewCoins goes on to its next candidate
NextCoin(p, saved, err) ==
    IF Tail(loc[p].queue) # <<>>
    THEN /\ Goto(p, "findOne", [loc[p] EXCEPT !.queue = Tail(@), !.saved = saved,
                                              !.err = err])
         /\ UNCHANGED lastCycle
    ELSE EndCycle(p, loc[p].scan, saved, err)

\* does the insert of a document with this id pass the unique index on id
UniqueId(S, id) == \A r \in S : r.id # id

\* a lookup by address alone, on every network
findOneCoinAnyNetwork(coinData) ==
    {c \in coins : c.contractAddress = coinData.contractAddress}

\* a lookup by document id
findOneCoinById(coinData) == {c \in coins : c.id = coinData.id}

\* a lookup that never finds a record
findOneCoinNone(coinData) == {}

\* Coin.findOne({contractAddress, network})
findOneCoin(coinData) ==
    {c \in coins : c.contractAddress = coinData.contractAddress
                   /\ c.network = coinData.network}

\* MonitoringService.monitorNewLaunches: monitorNetworkLaunches for "sui",
\* then for "bnb", each a scan followed by saveNewCoins
monitorNewLaunches(p) ==
    \/ /\ Enter(p, "scan", [IdleLoc EXCEPT !.net = Networks[1]])
       /\ UNCHANGED <<config, store, delivered, lastCycle>>
    \/ \* the scanner fails (warned, the network is skipped) or returns data
       /\ pc[p] = "scan"
       /\ UNCHANGED <<config, store, delivered, runs>>
       /\ \/ /\ UNCHANGED lastCycle
             /\ IF loc[p].net = Networks[1]
                THEN Goto(p, "scan", [IdleLoc EXCEPT !.net = Networks[2]])
                ELSE Return(p)
          \/ \E data \in SeqsUpTo(ScannerCoins(loc[p].net), MaxScan) :
                LET filteredCoins == filterNewPairs(data) IN
                IF filteredCoins = <<>>
                THEN EndCycle(p, data, 0, FALSE)
                ELSE /\ Goto(p, "findOne", [loc[p] EXCEPT !.scan = data,
                                                          !.queue = filteredCoins])
                     /\ UNCHANGED lastCycle
    \/ \* saveNewCoins, the lookup: it throws, finds the record, or finds none
       /\ pc[p] = "findOne"
       /\ UNCHANGED <<config, store, delivered, runs>>
       /\ \/ NextCoin(p, loc[p].saved, TRUE)
          \/ IF findOneCoin(Head(loc[p].queue)) # {}
             THEN NextCoin(p, loc[p].saved, loc[p].err)
             ELSE Goto(p, "insert", loc[p]) /\ UNCHANGED lastCycle
    \/ \* saveNewCoins, coin.save(): inserted, or rejected by the unique index
       \* on id, or the write throws; the catch logs and the loop goes on
       /\ pc[p] = "insert"
       /\ UNCHANGED <<config, news, telegramMessages, tweets, delivered, runs>>
       /\ \/ /\ UNCHANGED coins
             /\ NextCoin(p, loc[p].saved, TRUE)
          \/ IF UniqueId(coins, Head(loc[p].queue).id)
             THEN /\ coins' = coins \cup {NewCoin(Head(loc[p].queue))}
                  /\ NextCoin(p, loc[p].saved + 1, loc[p].err)
             ELSE /\ UNCHANGED coins
                  /\ NextCoin(p, loc[p].saved, loc[p].err)

(* ----------------------- MonitoringService: news ---------------------- *)

\* News.findOne({title: newsItem.title.trim()}): an exact match on the title
findOneNews(newsItem) == {n \in news : n.title = Trim(newsItem.title)}

\* the enum of NewsSchema.network, checked when a document is saved
NewsNetworkEnum == {"sui", "bnb"}

\* the loop of saveNews goes on to its next item; after the last one
\* monitorNews returns
NextNews(p) ==
    IF Tail(loc[p].queue) # <<>>
    THEN Goto(p, "newsFindOne", [loc[p] EXCEPT !.queue = Tail(@)])
    ELSE Return(p)

\* MonitoringService.monitorNews: getAllNews, then saveNews(general) and
\* saveNews(sui)
monitorNews(p) ==
    \/ /\ Enter(p, "fetch", IdleLoc)
       /\ UNCHANGED <<config, store, delivered, lastCycle>>
    \/ \* getAllNews fails or throws (warned), or returns the two lists
       /\ pc[p] = "fetch"
       /\ UNCHANGED <<config, store, delivered, runs, lastCycle>>
       /\ \/ Return(p)
          \/ \E general \in SeqsUpTo(NewsItems("general"), MaxBatch),
                sui \in SeqsUpTo(NewsItems("sui"), MaxBatch) :
                IF general \o sui = <<>> THEN Return(p)
                ELSE Goto(p, "newsFindOne", [loc[p] EXCEPT !.queue = general \o sui])
    \/ \* saveNews, the lookup: it throws, finds a record (skipped), or none
       /\ pc[p] = "newsFindOne"
       /\ UNCHANGED <<config, store, delivered, runs, lastCycle>>
       /\ \/ NextNews(p)
          \/ IF findOneNews(Head(loc[p].queue)) # {}
             THEN NextNews(p)
             ELSE Goto(p, "newsInsert", loc[p])
    \/ \* saveNews, news.save(): inserted, or rejected (validation of network,
       \* unique index on id), or the write throws; the catch logs
       /\ pc[p] = "newsInsert"
       /\ UNCHANGED <<config, coins, telegramMessages, tweets, delivered, runs,
                      lastCycle>>
       /\ \/ UNCHANGED news
          \/ IF /\ Head(loc[p].queue).network \in NewsNetworkEnum
                /\ UniqueId(news, Head(loc[p].queue).id)
             THEN news' = news \cup {NewNews(Head(loc[p].queue))}
             ELSE UNCHANGED news
       /\ NextNews(p)

(* ------------------ OnchainPairScannerService: blocks ----------------- *)

\* a duration added to a clock that is followed up to MIN_REQUEST_INTERVAL
Later(clock, ms) ==
    IF clock + ms > MIN_REQUEST_INTERVAL THEN MIN_REQUEST_INTERVAL ELSE clock + ms

\* time passes
Tick ==
    /\ sinceRequest < MIN_REQUEST_INTERVAL \/ sinceRpc < MIN_REQUEST_INTERVAL
    /\ sinceRequest' = Later(sinceRequest, MIN_REQUEST_INTERVAL \div 2)
    /\ sinceRpc' = Later(sinceRpc, MIN_REQUEST_INTERVAL \div 2)
    /\ UNCHANGED <<service, fetcher, blockCache, rpcGap, call, requested, scan>>

\* a chain RPC call (getBlockNumber, getLogs, getBlock, a contract read)
\* starts now
StartRpc ==
    /\ rpcGap' = sinceRpc
    /\ sinceRpc' = 0

\* no getBlockWithCache call is under way
NoCall == [pc |-> "idle", blockNumber |-> 0, retries |-> 0, attempts |-> 0,
           waits |-> <<>>, result |-> "none"]

\* the timestamp of a block of the chain, and Math.floor(Date.now() / 1000):
\* later than every block's
Timestamp(blockNumber) == blockNumber
NowTimestamp == MaxBlock + 1

\* the block a getBlockWithCache call returned: null, or its timestamp
TimestampOf(c) ==
    CASE c.result \in {"cached", "live"} -> Timestamp(c.blockNumber)
      [] c.result = "synthetic" -> NowTimestamp
      [] OTHER -> 0

\* getBlockWithCache(blockNumber) is called
CallBlock(blockNumber) ==
    /\ call.pc = "idle"
    /\ call' = [NoCall EXCEPT !.pc = "check", !.blockNumber = blockNumber]

\* a cache in which nothing is stored
CacheSetNothing(cache, blockNumber) == cache

\* a cache that deletes its newest key when it holds more than CacheLimit
\* entries
CacheSetNewestOut(cache, blockNumber) ==
    LET kept == IF Len(cache) > CacheLimit THEN SubSeq(cache, 1, Len(cache) - 1)
                ELSE cache IN
    IF \E i \in 1..Len(kept) : kept[i] = blockNumber THEN kept
    ELSE Append(kept, blockNumber)

\* this.blockCache.set(blockNumber, block), after the oldest key is deleted
\* when the cache holds more than CacheLimit entries
CacheSet(cache, blockNumber) ==
    LET kept == IF Len(cache) > CacheLimit THEN Tail(cache) ELSE cache IN
    IF \E i \in 1..Len(kept) : kept[i] = blockNumber THEN kept
    ELSE Append(kept, blockNumber)

\* a catch that stores the block it made up
CacheAfterErrorSet(cache, blockNumber) ==
    IF \E i \in 1..Len(cache) : cache[i] = blockNumber THEN cache
    ELSE Append(cache, blockNumber)

\* the cache after the outer catch of getBlockWithCache, which returns a
\* block it makes up and writes nothing
CacheAfterError(cache, blockNumber) == cache

\* the delay before the next attempt, `retries` attempts being left
RetryDelay(retries) == 1000 * (4 - retries)

\* the steps of getBlockWithCache
getBlockWithCache ==
    \/ \* the cache is looked up; on a miss the call waits until
       \* MIN_REQUEST_INTERVAL has passed since lastRequestTime
       /\ call.pc = "check"
       /\ UNCHANGED <<blockCache, sinceRpc, rpcGap>>
       /\ IF \E i \in 1..Len(blockCache) : blockCache[i] = call.blockNumber
          THEN /\ call' = [call EXCEPT !.pc = "done", !.result = "cached"]
               /\ UNCHANGED sinceRequest
          ELSE IF sinceRequest < MIN_REQUEST_INTERVAL
          THEN /\ call' = [call EXCEPT !.pc = "gate"]
               /\ UNCHANGED sinceRequest
          ELSE /\ call' = [call EXCEPT !.pc = "fetch", !.retries = Retries]
               /\ sinceRequest' = 0
    \/ \* the timer of the gate fires; lastRequestTime = Date.now()
       /\ call.pc = "gate"
       /\ sinceRpc' = Later(sinceRpc, MIN_REQUEST_INTERVAL - sinceRequest)
       /\ sinceRequest' = 0
       /\ call' = [call EXCEPT !.pc = "fetch", !.retries = Retries]
       /\ UNCHANGED <<blockCache, rpcGap>>
    \/ \* one turn of `while (retries > 0 && !block)`: getBlock returns a
       \* block, returns null, or throws (rate limit, or anything else)
       /\ call.pc = "fetch"
       /\ StartRpc
       /\ UNCHANGED sinceRequest
       /\ LET c == [call EXCEPT !.attempts = @ + 1] IN
          \/ /\ blockCache' = CacheSet(blockCache, call.blockNumber)
             /\ call' = [c EXCEPT !.pc = "done", !.result = "live"]
          \/ /\ call.attempts + 1 < MaxAttempts
             /\ call' = c
             /\ UNCHANGED blockCache
          \/ /\ call' = IF call.retries - 1 > 0
                         THEN [c EXCEPT !.pc = "backoff", !.retries = @ - 1]
                         ELSE [c EXCEPT !.pc = "done", !.retries = @ - 1,
                                        !.result = "null"]
             /\ UNCHANGED blockCache
          \/ /\ call' = [c EXCEPT !.pc = "done", !.result = "synthetic"]
             /\ blockCache' = CacheAfterError(blockCache, call.blockNumber)
    \/ \* the timer of the retry fires
       /\ call.pc = "backoff"
       /\ sinceRequest' = Later(sinceRequest, RetryDelay(call.retries))
       /\ sinceRpc' = Later(sinceRpc, RetryDelay(call.retries))
       /\ call' = [call EXCEPT !.pc = "fetch", !.waits = Append(@, RetryDelay(call.retries))]
       /\ UNCHANGED <<blockCache, rpcGap>>

\* the caller has the block (or null) of the call
ReturnBlock ==
    /\ call.pc = "done"
    /\ requested' = requested \cup {call.blockNumber}
    /\ call' = NoCall

(* ------------------ OnchainPairScannerService: scans ------------------ *)

\* several chain RPC calls start at once (Promise.allSettled of calls)
StartRpcs ==
    /\ rpcGap' = 0
    /\ sinceRpc' = 0

\* addresses as the chain reports them: checksummed (mixed case) or not
Address(a, upper) == [a |-> a, upper |-> upper]
\* the empty string where an address is expected
NoAddress == Address(0, FALSE)

\* a log of the chain
Log(strategy, payload, address, blockNumber) ==
    [strategy |-> strategy, payload |-> payload, address |-> address,
     blockNumber |-> blockNumber]

\* the logs a query of a strategy can return. Factory and mint logs: one
\* pair or token in two spellings in block 1, another in block 2; router
\* logs: the first token, in block 2; and logs that do not decode
LogsOf(strategy) ==
    IF strategy = "liquidity"
    THEN {Log(strategy, "ok", Address(1, TRUE), 2), Log(strategy, "malformed", NoAddress, 1)}
    ELSE {Log(strategy, "ok", Address(1, FALSE), 1), Log(strategy, "ok", Address(1, TRUE), 1),
          Log(strategy, "ok", Address(2, FALSE), 2)}
         \cup {Log(strategy, payload, NoAddress, 1) :
                   payload \in IF strategy = "factory" THEN {"malformed", "fewTopics"}
                               ELSE {}}

\* what a getLogs call settles to: rejected, or fulfilled with logs
Rejected == [fulfilled |-> FALSE, value |-> <<>>]
QueryResults(strategy, n) ==
    {Rejected} \cup [fulfilled : {TRUE}, value : SeqsUpTo(LogsOf(strategy), n)]

\* the value of a settled query: the catch of getFactoryPairLogs returns [],
\* getLiquidityLogs takes the fulfilled results only
Fulfilled(result) == IF result.fulfilled THEN result.value ELSE <<>>

\* decodeLiquidityLog: id is `${tokenAddress.toLowerCase()}-${transactionHash}`
LiquidityCoin(token, tx, t) ==
    [id |-> <<token, tx>>, symbol |-> "SYM", network |-> "bnb",
     contractAddress |-> token, launchTime |-> t]

\* detectNewTokensAlternative: id is `mint-${tokenAddress}-${transactionHash}`
MintCoin(token, tx, t) ==
    [id |-> <<"mint", token, tx>>, symbol |-> "SYM", network |-> "bnb",
     contractAddress |-> token, launchTime |-> t]

\* the record a decoder builds from a log and the timestamp of its block
\* (the logs of a block are of one transaction: its number stands for the hash)
Decoded(log, t) ==
    CASE log.strategy = "factory" -> BnbPairCoin(ToLowerCase(log.address), t)
      [] log.strategy = "liquidity" ->
            LiquidityCoin(ToLowerCase(log.address), log.blockNumber, t)
      [] OTHER -> MintCoin(ToLowerCase(log.address), log.blockNumber, t)

\* Array.prototype.filter with findIndex: the first record of each contractAddress
RECURSIVE FirstOfEachAddress(_)
FirstOfEachAddress(s) ==
    IF s = <<>> THEN <<>>
    ELSE LET init == SubSeq(s, 1, Len(s) - 1)
             last == s[Len(s)] IN
         IF \E i \in 1..Len(init) : init[i].contractAddress = last.contractAddress
         THEN FirstOfEachAddress(init)
         ELSE Append(FirstOfEachAddress(init), last)

\* Array.prototype.sort((a, b) => b.launchTime - a.launchTime): stable
RECURSIVE SortByLaunchTimeDesc(_)
SortByLaunchTimeDesc(s) ==
    IF s = <<>> THEN <<>>
    ELSE LET rest == SortByLaunchTimeDesc(SubSeq(s, 1, Len(s) - 1))
             last == s[Len(s)]
             k == Cardinality({i \in 1..Len(rest) : rest[i].launchTime >= last.launchTime}) IN
         SubSeq(rest, 1, k) \o <<last>> \o SubSeq(rest, k + 1, Len(rest))

\* OnchainPairScannerService.removeDuplicatesAndSort
removeDuplicatesAndSort(coins_) == SortByLaunchTimeDesc(FirstOfEachAddress(coins_))

\* no scan is under way
NoScan == [kind |-> "", pc |-> "idle", logs |-> <<>>, allCoins |-> <<>>,
           uniqueTokens |-> {}, data |-> <<>>, success |-> FALSE,
           altRuns |-> 0, got |-> 0, skipped |-> 0, rejected |-> 0,
           modules |-> <<>>, queried |-> 0, failedPair |-> 0, dropped |-> 0,
           pair |-> [package |-> "", timeRange |-> "", moduleQueries |-> 0,
                     fulfilled |-> 0]]

\* the logs of the queries that were fulfilled, in the order the scan
\* decodes them: the factory's, then the routers'
JoinLogsAllOrNone(factory, routers) ==
    IF ~factory.fulfilled \/ \E i \in 1..4 : ~routers[i].fulfilled
    THEN <<>>
    ELSE factory.value \o routers[1].value \o routers[2].value
            \o routers[3].value \o routers[4].value

JoinLogs(factory, routers) ==
    Fulfilled(factory) \o Fulfilled(routers[1]) \o Fulfilled(routers[2])
        \o Fulfilled(routers[3]) \o Fulfilled(routers[4])

\* the logs left to decode after the decoder returned null for the first
RestAfterNullNone(logs) == <<>>
RestAfterNull(logs) == Tail(logs)

\* `if (uniqueCoins.length === 0)`: the last-resort detection is needed
NeedsAlternativeAlways(uniqueCoins) == TRUE
NeedsAlternative(uniqueCoins) == Len(uniqueCoins) = 0

\* mintLogs.slice(0, 50)
MintLogLimit == 50
Slice(logs, n) == SubSeq(logs, 1, IF Len(logs) < n THEN Len(logs) ELSE n)

\* the scan returns
Finish(sc, success, data) ==
    scan' = [sc EXCEPT !.pc = "done", !.success = success, !.data = data]

\* the loop of a decoder batch goes on with the logs `rest`; after the last
\* log of the strategies the records are deduplicated and sorted, and the
\* last-resort detection runs if there is none; after the last mint log the
\* tokens are returned as they are
Continue(sc, rest) ==
    IF rest # <<>> THEN scan' = [sc EXCEPT !.pc = "decode", !.logs = rest]
    ELSE IF sc.altRuns > 0 THEN Finish([sc EXCEPT !.logs = rest], TRUE, sc.allCoins)
    ELSE LET uniqueCoins == removeDuplicatesAndSort(sc.allCoins) IN
         IF NeedsAlternative(uniqueCoins)
         THEN scan' = [sc EXCEPT !.pc = "alt", !.logs = rest, !.altRuns = @ + 1]
         ELSE Finish([sc EXCEPT !.logs = rest], TRUE, uniqueCoins)

\* the decoder returned null for the first log
Skip(sc) == Continue([sc EXCEPT !.skipped = @ + 1], RestAfterNull(sc.logs))

\* OnchainPairScannerService.getRecentBNBPairCreations
getRecentBNBPairCreations ==
    \/ \* called by monitorNetworkLaunches("bnb")
       /\ scan.pc = "idle"
       /\ scan' = [NoScan EXCEPT !.kind = "bnb", !.pc = "head"]
       /\ UNCHANGED <<blockCache, sinceRequest, sinceRpc, rpcGap, call, requested>>
    \/ \* getBlockNumber: it throws (the scan fails) or returns the head
       /\ scan.pc = "head"
       /\ StartRpc
       /\ \/ Finish(scan, FALSE, <<>>)
          \/ scan' = [scan EXCEPT !.pc = "logs"]
       /\ UNCHANGED <<blockCache, sinceRequest, call, requested>>
    \/ \* Promise.allSettled([getFactoryPairLogs, getLiquidityLogs]): the
       \* getLogs of the factory and, router by router, the two of a router
       /\ scan.pc = "logs"
       /\ StartRpcs
       /\ \E factory \in QueryResults("factory", MaxLogs),
             routers \in [1..4 -> QueryResults("liquidity", MaxRouterLogs)] :
             Continue([scan EXCEPT
                          !.got = Len(Fulfilled(factory)) + Len(Fulfilled(routers[1]))
                                  + Len(Fulfilled(routers[2])) + Len(Fulfilled(routers[3]))
                                  + Len(Fulfilled(routers[4])),
                          !.rejected = Cardinality({i \in 1..4 : ~routers[i].fulfilled})
                                       + (IF factory.fulfilled THEN 0 ELSE 1)],
                      JoinLogs(factory, routers))
       /\ UNCHANGED <<blockCache, sinceRequest, call, requested>>
    \/ \* a decoder, up to its metadata reads: the payload does not decode,
       \* or a contract read fails, or getBlockWithCache is called
       /\ scan.pc = "decode"
       /\ LET log == Head(scan.logs) IN
          \/ /\ log.payload # "ok" \/ ToLowerCase(log.address) \in scan.uniqueTokens
             /\ Skip(scan)
             /\ UNCHANGED <<sinceRpc, rpcGap, call>>
          \/ /\ log.payload = "ok" /\ ToLowerCase(log.address) \notin scan.uniqueTokens
             /\ StartRpcs
             /\ LET sc == IF scan.altRuns > 0
                          THEN [scan EXCEPT !.uniqueTokens = @ \cup {ToLowerCase(log.address)}]
                          ELSE scan IN
                \/ Skip(sc) /\ UNCHANGED call
                \/ scan' = [sc EXCEPT !.pc = "block"] /\ CallBlock(log.blockNumber)
       /\ UNCHANGED <<blockCache, sinceRequest, requested>>
    \/ \* a decoder, after getBlockWithCache: null, or the record is pushed
       /\ scan.pc = "block"
       /\ ReturnBlock
       /\ IF call.result = "null" THEN Skip(scan)
          ELSE Continue([scan EXCEPT
                            !.allCoins = Append(@, Decoded(Head(scan.logs), TimestampOf(call)))],
                        Tail(scan.logs))
       /\ UNCHANGED <<blockCache, sinceRequest, sinceRpc, rpcGap>>
    \/ \* detectNewTokensAlternative: getLogs of the mint transfers throws
       \* (caught, []) or returns logs
       /\ scan.pc = "alt"
       /\ StartRpc
       /\ \E mintLogs \in QueryResults("mint", MaxLogs) :
             LET logs == Slice(Fulfilled(mintLogs), MintLogLimit) IN
             Continue([scan EXCEPT !.got = @ + Len(logs)], logs)
       /\ UNCHANGED <<blockCache, sinceRequest, call, requested>>

\* the (package, event type) pairs getRecentSuiPairs queries, in order
SuiEventQueries ==
    <<<<"cetus", "PoolCreatedEvent">>, <<"cetus", "AddLiquidityEvent">>,
      <<"turbos", "PoolCreated">>, <<"turbos", "LiquidityAdded">>,
      <<"factory", "PairCreated">>>>

\* OnchainPairScannerService.getKnownModules
getKnownModules(packageId) ==
    CASE packageId = "cetus" -> <<"factory", "pool", "clmm_pool", "amm_swap">>
      [] packageId = "turbos" -> <<"swap", "pool_factory", "pool", "turbos_swap">>
      [] packageId = "factory" -> <<"factory", "pair", "swap">>
      [] OTHER -> <<"factory", "pool", "swap", "pair">>

\* `fiveMinutesAgo` of getRecentSuiPairs: the events of the last five
\* minutes are those of the latest time
fiveMinutesAgo == MaxTime

\* an event of the Sui event index. token_x, token_y, coin_type_a and
\* coin_type_b of parsedJson are present or not; pair, coin_type, pool_id
\* and id.txDigest are an address or the empty string; type is absent (""),
\* has fewer than three parts ("short"), is the full type the scan asks for
\* ("match") or another full type ("other")
SuiEvent(token_x, token_y, pair, coin_type_a, coin_type_b, coin_type, pool_id, type, txDigest, eventSeq, timestampMs) ==
    [token_x |-> token_x, token_y |-> token_y, pair |-> pair,
     coin_type_a |-> coin_type_a, coin_type_b |-> coin_type_b,
     coin_type |-> coin_type, pool_id |-> pool_id, type |-> type,
     txDigest |-> txDigest, eventSeq |-> eventSeq, timestampMs |-> timestampMs]

\* an event whose payload holds a pool id at most
PoolEvent(pool_id, type, timestampMs) ==
    SuiEvent(FALSE, FALSE, NoAddress, FALSE, FALSE, NoAddress, pool_id, type,
             NoAddress, 1, timestampMs)

\* the events a Sui query can return. A TimeRange query returns events of
\* the window, of any type; a MoveEventType query returns events of the
\* type asked for, of any time. The pool id is absent or one pool in two
\* spellings
SuiEvents(query) ==
    IF query = "TimeRange"
    THEN {PoolEvent(a, "match", t) :
              a \in {NoAddress, Address(1, FALSE), Address(1, TRUE)},
              t \in {u \in Times : u >= fiveMinutesAgo}}
         \cup {PoolEvent(Address(1, FALSE), "other", t) :
                   t \in {u \in Times : u >= fiveMinutesAgo}}
    ELSE {PoolEvent(a, "match", t) :
              a \in {NoAddress, Address(1, FALSE), Address(1, TRUE)},
              t \in Times}

\* the branch of parseSuiEvent an event takes, lowest branch first
ShapeLowestFirst(ev) ==
    CASE ev.pool_id # NoAddress -> "pool_id"
      [] ev.coin_type # NoAddress -> "coin_type"
      [] ev.coin_type_a /\ ev.coin_type_b -> "coin_type_a"
      [] ev.token_x /\ ev.token_y -> "token_x"
      [] ev.type # "" -> "type"
      [] OTHER -> "none"

\* the branch of parseSuiEvent an event takes
Shape(ev) ==
    CASE ev.token_x /\ ev.token_y -> "token_x"
      [] ev.coin_type_a /\ ev.coin_type_b -> "coin_type_a"
      [] ev.coin_type # NoAddress -> "coin_type"
      [] ev.pool_id # NoAddress -> "pool_id"
      [] ev.type # "" -> "type"
      [] OTHER -> "none"

\* `a || b` of two strings
OrElse(a, b) == IF a # NoAddress THEN a ELSE b

\* parseSuiEvent, as the list of its result (null: empty). The symbol
\* stands for the name as well, which the same branch sets
parseSuiEvent(ev) ==
    LET shape == Shape(ev)
        symbol == CASE shape = "token_x" -> "X/Y"
                    [] shape = "coin_type_a" -> "A/B"
                    [] shape = "coin_type" -> "COIN"
                    [] shape = "pool_id" -> "POOL"
                    [] shape = "type" /\ ev.type # "short" -> "TYPE"
                    [] OTHER -> "UNKNOWN"
        contractAddress ==
            CASE shape = "token_x" -> OrElse(ev.pair, ev.txDigest)
              [] shape = "coin_type_a" -> OrElse(ev.pool_id, ev.txDigest)
              [] shape = "coin_type" -> ev.coin_type
              [] shape = "pool_id" -> ev.pool_id
              [] OTHER -> ev.txDigest IN
    IF contractAddress = NoAddress THEN <<>>
    ELSE <<[SuiCoin(contractAddress, ev.eventSeq, ev.timestampMs)
                EXCEPT !.symbol = symbol]>>

\* scanSuiSpecificEvent: the parsed events of a query result
RECURSIVE ParseAll(_)
ParseAll(events) ==
    IF events = <<>> THEN <<>>
    ELSE parseSuiEvent(Head(events)) \o ParseAll(Tail(events))

\* `relevantEvents` of scanSuiSpecificEvent
RECURSIVE relevantEvents(_)
relevantEvents(events) ==
    IF events = <<>> THEN <<>>
    ELSE (IF Head(events).type = "match" THEN <<Head(events)>> ELSE <<>>)
             \o relevantEvents(Tail(events))

\* the results of one Sui query: at most MaxRouterLogs events, and none
\* once the scan holds MaxSuiCoins records
SuiResults(sc, query) ==
    SeqsUpTo(SuiEvents(query),
             IF Len(sc.allCoins) >= MaxSuiCoins THEN 0 ELSE MaxRouterLogs)

\* the events of a fulfilled query are parsed and their records kept
Parsed(sc, events) ==
    [sc EXCEPT !.allCoins = @ \o ParseAll(events),
               !.got = @ + Len(events),
               !.dropped = @ + Len(events) - Len(ParseAll(events))]

\* the modules left to query after a module query, which failed or not:
\* none after a failure
RestOfModulesNone(modules, fulfilled) ==
    IF fulfilled THEN Tail(modules) ELSE <<>>

\* the modules left to query after a module query, which failed or not
RestOfModules(modules, fulfilled) == Tail(modules)

\* the loop of getRecentSuiPairs goes on with the next pair. scan.failedPair
\* notes the first pair all of whose queries failed
NextPair(sc) ==
    [sc EXCEPT !.logs = Tail(@), !.pc = "events",
               !.failedPair = IF @ = 0 /\ sc.pair.fulfilled = 0
                              THEN sc.queried ELSE @]

\* the scan after scanSuiSpecificEvent of a pair, which stops the scan if
\* every query of the pair failed
AfterPairOrFail(sc) ==
    IF sc.pair.fulfilled = 0 THEN Finish(sc, FALSE, <<>>)
    ELSE LET rest == NextPair(sc) IN
         IF rest.logs # <<>> THEN scan' = rest
         ELSE Finish(rest, TRUE, removeDuplicatesAndSort(rest.allCoins))

\* the scan after scanSuiSpecificEvent of a pair: the next pair; after the
\* last one the records are deduplicated, sorted and returned
AfterPair(sc) ==
    LET rest == NextPair(sc) IN
    IF rest.logs # <<>> THEN scan' = rest
    ELSE Finish(rest, TRUE, removeDuplicatesAndSort(rest.allCoins))

\* OnchainPairScannerService.getRecentSuiPairs, one step per query of
\* scanSuiSpecificEvent. scan.pair notes, for the pair under way or just
\* done, its package, whether its TimeRange query failed, and how many
\* module queries were issued and fulfilled
getRecentSuiPairs ==
    /\ UNCHANGED <<blockCache, sinceRequest, sinceRpc, rpcGap, call, requested>>
    /\ \/ \* called by monitorNetworkLaunches("sui")
          /\ scan.pc = "idle"
          /\ scan' = [NoScan EXCEPT !.kind = "sui", !.pc = "events",
                                    !.logs = SuiEventQueries]
       \/ \* the TimeRange query of the next pair is fulfilled
          /\ scan.kind = "sui"
          /\ scan.pc = "events"
          /\ \E events \in SuiResults(scan, "TimeRange") :
                AfterPair([Parsed(scan, relevantEvents(events)) EXCEPT
                    !.queried = @ + 1,
                    !.pair = [package |-> Head(scan.logs)[1], timeRange |-> "ok",
                              moduleQueries |-> 0, fulfilled |-> 1]])
       \/ \* the TimeRange query of the next pair fails
          /\ scan.kind = "sui"
          /\ scan.pc = "events"
          /\ scan' = [scan EXCEPT
                 !.pc = "modules",
                 !.modules = getKnownModules(Head(scan.logs)[1]),
                 !.queried = @ + 1,
                 !.rejected = @ + 1,
                 !.pair = [package |-> Head(scan.logs)[1], timeRange |-> "failed",
                           moduleQueries |-> 0, fulfilled |-> 0]]
       \/ \* the MoveEventType query of the next module is fulfilled or fails
          /\ scan.kind = "sui"
          /\ scan.pc = "modules"
          /\ \E fulfilled \in BOOLEAN :
             \E events \in (IF fulfilled THEN SuiResults(scan, "MoveEventType")
                            ELSE {<<>>}) :
                LET sc == [Parsed(scan, events) EXCEPT
                               !.modules = RestOfModules(@, fulfilled),
                               !.rejected = @ + (IF fulfilled THEN 0 ELSE 1),
                               !.pair.moduleQueries = @ + 1,
                               !.pair.fulfilled = @ + (IF fulfilled THEN 1 ELSE 0)] IN
                IF sc.modules # <<>> THEN scan' = sc
                ELSE AfterPair(sc)

\* one scan of a network, with the getBlockWithCache calls of its decoders
NextScan ==
    \/ getRecentBNBPairCreations /\ UNCHANGED <<service, fetcher>>
    \/ getRecentSuiPairs /\ UNCHANGED <<service, fetcher>>
    \/ getBlockWithCache /\ UNCHANGED <<service, fetcher, requested, scan>>
    \/ Tick

\* the scanner after construction: lastRequestTime is 0
ScannerInit ==
    /\ blockCache = <<>>
    /\ sinceRequest = MIN_REQUEST_INTERVAL
    /\ sinceRpc = MIN_REQUEST_INTERVAL
    /\ rpcGap = -1
    /\ call = NoCall
    /\ requested = {}
    /\ scan = NoScan

\* the largest of a set of block numbers (0 when empty)
MaxOf(S) == IF S = {} THEN 0 ELSE CHOOSE b \in S : \A c \in S : c <= b

\* the block numbers a caller asks for: the oldest cached one, the last
\* one asked for, the first one ever asked for, or one never asked for
BlockChoices ==
    ({1, MaxOf(requested), MaxOf(requested) + 1}
        \cup (IF blockCache = <<>> THEN {} ELSE {Head(blockCache)}))
    \cap (1..MaxBlock)

\* a caller of the scanner asks for a block
RequestBlock ==
    /\ runs < MaxCalls
    /\ runs' = runs + 1
    /\ \E blockNumber \in BlockChoices : CallBlock(blockNumber)
    /\ UNCHANGED <<config, store, delivered, pc, loc, lastCycle>>
    /\ UNCHANGED <<blockCache, sinceRequest, sinceRpc, rpcGap, requested, scan, fetcher>>

\* getBlockWithCache calls, one after the other
NextBlock ==
    \/ RequestBlock
    \/ getBlockWithCache /\ UNCHANGED <<service, fetcher, requested, scan>>
    \/ ReturnBlock /\ UNCHANGED <<service, fetcher, blockCache, sinceRequest, sinceRpc, rpcGap, scan>>
    \/ Tick

(* -------------------- EnhancedCryptoNewsService ------------------------ *)

\* the titles the sources deliver: one text in two letter cases, and another
FetchTitles == {[text |-> "t", upper |-> FALSE, padded |-> FALSE],
                [text |-> "t", upper |-> TRUE, padded |-> FALSE],
                [text |-> "u", upper |-> FALSE, padded |-> FALSE]}

\* the NewsItem lists a source can return
FetchItems(source) ==
    SeqsUpTo([title : FetchTitles, publishedAt : Times, source : {source}], MaxFetch)

\* what a source method returns: { success: true, data } or, its error
\* caught, { success: false, error }
Fetched(data) == [success |-> TRUE, data |-> data, error |-> <<>>]
Failure(error) == [success |-> FALSE, data |-> <<>>, error |-> error]
\* a source that was not asked, or has not answered
Pending == Failure(<<"pending">>)

\* the results a source method can return
SourceResults(source) ==
    {Fetched(data) : data \in FetchItems(source)} \cup {Failure(<<source>>)}

\* `${result.error}` of a result: "undefined" when it has no error
ErrorText(result) == IF result.success THEN <<"undefined">> ELSE result.error

\* `result.success && result.data && result.data.length > 0`, without the
\* test of the length
UsableOnSuccess(result) == result.success

\* `result.success && result.data && result.data.length > 0`
Usable(result) == result.success /\ Len(result.data) > 0

\* the failure getGeneralCryptoNews returns when no source is usable
BothFailed(cryptoPanic, coinTelegraph) ==
    Failure(<<"CryptoPanic:">> \o ErrorText(cryptoPanic)
                \o <<"CoinTelegraph:">> \o ErrorText(coinTelegraph))

\* EnhancedCryptoNewsService.removeDuplicates: the first item of each
\* title, compared lower-cased and trimmed
RECURSIVE removeDuplicates(_)
removeDuplicates(items) ==
    IF items = <<>> THEN <<>>
    ELSE LET init == SubSeq(items, 1, Len(items) - 1)
             last == items[Len(items)] IN
         IF \E i \in 1..Len(init) :
                Trim(ToLowerCase(init[i].title)) = Trim(ToLowerCase(last.title))
         THEN removeDuplicates(init)
         ELSE Append(removeDuplicates(init), last)

\* sort((a, b) => b.publishedAt.getTime() - a.publishedAt.getTime()): stable
RECURSIVE SortByPublishedAtDesc(_)
SortByPublishedAtDesc(s) ==
    IF s = <<>> THEN <<>>
    ELSE LET rest == SortByPublishedAtDesc(SubSeq(s, 1, Len(s) - 1))
             last == s[Len(s)]
             k == Cardinality({i \in 1..Len(rest) : rest[i].publishedAt >= last.publishedAt}) IN
         SubSeq(rest, 1, k) \o <<last>> \o SubSeq(rest, k + 1, Len(rest))

\* the items of the settled results of getSuiNews, all of them or none
MergeAllOrNone(a, b) ==
    IF a.success /\ b.success THEN a.data \o b.data ELSE <<>>

\* the items of the settled results of getSuiNews that succeeded
Merge(a, b) ==
    (IF a.success THEN a.data ELSE <<>>) \o (IF b.success THEN b.data ELSE <<>>)

\* no getAllNews call is under way
NoFetch == [pc |-> "idle", cryptoPanic |-> Pending, coinTelegraph |-> Pending,
            newsApi |-> Pending, googleRss |-> Pending,
            general |-> Pending, sui |-> Pending,
            generalNews |-> <<>>, suiNews |-> <<>>, combined |-> <<>>]

\* getSuiNews once both of its queries are settled, and the rest of
\* getAllNews
Combine(f) ==
    LET sui == Fetched(removeDuplicates(Merge(f.newsApi, f.googleRss)))
        generalNews == IF f.general.success THEN f.general.data ELSE <<>>
        suiNews == IF sui.success THEN sui.data ELSE <<>> IN
    IF f.newsApi = Pending \/ f.googleRss = Pending THEN f
    ELSE [f EXCEPT !.pc = "done", !.sui = sui,
                   !.generalNews = generalNews, !.suiNews = suiNews,
                   !.combined = SortByPublishedAtDesc(generalNews \o suiNews)]

\* EnhancedCryptoNewsService.getGeneralCryptoNews, as called by getAllNews
getGeneralCryptoNews ==
    \/ \* getAllNews is called
       /\ fetch.pc = "idle"
       /\ fetch' = [NoFetch EXCEPT !.pc = "primary"]
    \/ \* getCryptoPanicNews returns
       /\ fetch.pc = "primary"
       /\ \E result \in SourceResults("CryptoPanic") :
             fetch' = IF Usable(result)
                      THEN [fetch EXCEPT !.cryptoPanic = result, !.general = result,
                                         !.pc = "sui"]
                      ELSE [fetch EXCEPT !.cryptoPanic = result, !.pc = "fallback"]
    \/ \* getCoinTelegraphNews returns
       /\ fetch.pc = "fallback"
       /\ \E result \in SourceResults("CoinTelegraph") :
             fetch' = [fetch EXCEPT
                 !.coinTelegraph = result,
                 !.general = IF Usable(result) THEN result
                             ELSE BothFailed(fetch.cryptoPanic, result),
                 !.pc = "sui"]

\* EnhancedCryptoNewsService.getSuiNews, as called by getAllNews: its two
\* queries run concurrently and are settled in any order
getSuiNews ==
    /\ fetch.pc = "sui"
    /\ \/ /\ fetch.newsApi = Pending
          /\ \E result \in SourceResults("NewsAPI") :
                fetch' = Combine([fetch EXCEPT !.newsApi = result])
       \/ /\ fetch.googleRss = Pending
          /\ \E result \in SourceResults("GoogleRSS") :
                fetch' = Combine([fetch EXCEPT !.googleRss = result])

\* EnhancedCryptoNewsService.getAllNews
getAllNews ==
    /\ getGeneralCryptoNews \/ getSuiNews
    /\ UNCHANGED <<service, scanner>>

(* --------------------------- specification ---------------------------- *)

\* nothing runs, nothing was sent, no cycle has finished
Quiet ==
    /\ delivered = EmptyBag
    /\ pc = [p \in Procs |-> "idle"]
    /\ loc = [p \in Procs |-> IdleLoc]
    /\ runs = 0
    /\ lastCycle = [n \in {"sui", "bnb"} |-> NoCycle]
    /\ ScannerInit
    /\ fetch = NoFetch

\* the state after construction, the collections empty; the monitoring
\* handlers never read the Telegram configuration
InitEmpty ==
    /\ enabled = TRUE
    /\ groupId = "group"
    /\ coins = {}
    /\ news = {}
    /\ telegramMessages = EmptyBag
    /\ tweets = EmptyBag
    /\ Quiet

\* one step of the monitoring handlers
Monitor(p) ==
    \/ monitorNewLaunches(p)
    \/ monitorNews(p)

\* one step of the publish passes
Publish(p) ==
    \/ processPendingMessages(p)
    \/ processPendingTweets(p)
    \/ processGroupNews(p)

\* Monitoring cycles run one at a time (the scheduling the core assumes),
\* from the empty store.
NextMonitor == Monitor(1) /\ UNCHANGED <<scanner, fetcher>>
SpecMonitor == InitEmpty /\ [][NextMonitor]_vars

\* Two launch-monitoring invocations at once: the cron tick and the
\* GET /api/monitor_newcoin_launch endpoint both call monitorNewLaunches.
NextOverlap == (\E p \in Procs : monitorNewLaunches(p)) /\ UNCHANGED <<scanner, fetcher>>
SpecOverlap == InitEmpty /\ [][NextOverlap]_vars

\* the stores the monitoring cycles leave behind: records with distinct ids,
\* nothing published yet
Persisted(S, n) ==
    {T \in SUBSET S : Cardinality(T) <= n /\ \A x, y \in T : x.id = y.id => x = y}

\* the candidates the stores of InitPersisted are made of: one address seen
\* on both networks, one title, every launch and publish time
PersistedCoins ==
    {SuiCoin(1, 1, t) : t \in Times} \cup {BnbPairCoin(1, t) : t \in Times}
PersistedNews ==
    {m \in NewsItems("sui") : ~m.title.upper /\ ~m.title.padded}

InitPersisted ==
    /\ enabled \in BOOLEAN
    /\ groupId \in GroupIds
    /\ coins \in Persisted({NewCoin(c) : c \in PersistedCoins}, MaxCoins)
    /\ news \in Persisted({NewNews(n) : n \in PersistedNews}, MaxNews)
    /\ telegramMessages = EmptyBag
    /\ tweets = EmptyBag
    /\ Quiet

\* Publish passes run one at a time over a persisted store.
Next == Publish(1) /\ UNCHANGED <<scanner, fetcher>>
Spec == InitPersisted /\ [][Next]_vars

\* The launch and news passes of the channel and of Twitter and the
\* launch-monitoring cycles, one at a time, over persisted coins.
InitLifecycle ==
    /\ enabled = TRUE
    /\ groupId = "group"
    /\ coins \in Persisted({NewCoin(c) : c \in PersistedCoins}, MaxCoins)
    /\ news = {}
    /\ telegramMessages = EmptyBag
    /\ tweets = EmptyBag
    /\ Quiet

NextLifecycle ==
    /\ processPendingMessages(1) \/ processPendingTweets(1) \/ monitorNewLaunches(1)
    /\ UNCHANGED <<scanner, fetcher>>

SpecLifecycle == InitLifecycle /\ [][NextLifecycle]_vars

\* the state after construction with Telegram disabled (TELEGRAM_ENABLED
\* not "true", or no bot token or channel id), over a persisted store
InitDisabled ==
    /\ enabled = FALSE
    /\ groupId \in GroupIds
    /\ coins \in Persisted({NewCoin(BnbPairCoin(1, t)) : t \in Times}, MaxNews)
    /\ news \in Persisted({NewNews(n) : n \in PersistedNews}, MaxNews)
    /\ telegramMessages = EmptyBag
    /\ tweets = EmptyBag
    /\ Quiet

\* A publish pass, then a publish pass or a launch-monitoring cycle, with
\* Telegram disabled.
NextDisabled ==
    /\ Publish(1) \/ (runs > 0 /\ monitorNewLaunches(1))
    /\ UNCHANGED <<scanner, fetcher>>
SpecDisabled == InitDisabled /\ [][NextDisabled]_vars

\* Two invocations of the channel and Twitter passes at once: the cron
\* ticks and the GET /api/process_posttweets, /api/process_telegram and
\* /api/process_socialmedia endpoints call them.
NextPublishOverlap ==
    /\ \E p \in Procs : processPendingMessages(p) \/ processPendingTweets(p)
    /\ UNCHANGED <<scanner, fetcher>>

SpecPublishOverlap == InitLifecycle /\ [][NextPublishOverlap]_vars

\* the cron callback of a pass fires once more ("30 * * * *" for the
\* channel, "0 * * * *" for Twitter): the invocations are not counted
CronTick(p, dest) ==
    /\ pc[p] = "idle"
    /\ dest = ChannelId => enabled
    /\ Goto(p, "find", [IdleLoc EXCEPT !.dest = dest, !.type = "launch"])
    /\ UNCHANGED <<config, store, delivered, runs, lastCycle>>

\* the step of invocation p with its send accepted, its query answered and
\* its write done: no catch is entered
Succeeds(p) ==
    /\ pc[p] = "find" /\ pc'[p] = "idle" =>
          loc[p].type = "news" /\ Unposted(loc[p].dest, "news") = {}
    /\ pc[p] = "send" => delivered' # delivered
    /\ pc[p] = "record" => <<telegramMessages, tweets>>' # <<telegramMessages, tweets>>
    /\ pc[p] = "flag" => <<coins, news>>' # <<coins, news>>

\* the pass of a destination, hour after hour, nothing failing
EveryHour(p, dest) ==
    /\ \/ CronTick(p, dest)
       \/ FindUnposted(p, dest, "launch", CoinLimit)
       \/ FindUnposted(p, dest, "news", NewsLimit)
       \/ Send(p, dest)
       \/ Record(p, dest)
       \/ MarkPosted(p, dest)
    /\ Succeeds(p)
    /\ UNCHANGED <<scanner, fetcher>>

\* Telegram configured, a persisted store with more news than one pass
\* takes, no monitoring cycle: no new item
InitEnabled ==
    /\ enabled = TRUE
    /\ groupId = "group"
    /\ coins \in Persisted({NewCoin(c) : c \in PersistedCoins}, MaxCoins)
    /\ news \in Persisted({NewNews(n) : n \in PersistedNews}, MaxBacklog)
    /\ telegramMessages = EmptyBag
    /\ tweets = EmptyBag
    /\ Quiet

\* The channel pass and the Twitter pass, each fired by its own cron again
\* and again, with every send and store operation succeeding.
NextPublishAll == EveryHour(1, ChannelId) \/ EveryHour(2, Twitter)

SpecPublishAll ==
    /\ InitEnabled
    /\ [][NextPublishAll]_vars
    /\ WF_vars(EveryHour(1, ChannelId))
    /\ WF_vars(EveryHour(2, Twitter))

(* ------------------------ selection scenarios ------------------------- *)

\* launch / publish time of the i-th document of a scenario store: all
\* different (w = 1) or equal two by two (w = 2), growing with i
ScenarioTime(i, w) == (i + w - 1) \div w

\* n persisted coins of which those numbered in K were published to dest
ScenarioCoins(n, K, dest, w) ==
    {SetFlag({NewCoin(BnbPairCoin(i, ScenarioTime(i, w)))}, <<i>>,
             IF i \in K THEN dest ELSE "")
        : i \in 1..n}

\* the facts of the published ones
ScenarioFacts(type, K, dest) ==
    SetToBag({IF dest = Twitter THEN NewTweet(type, <<i>>)
              ELSE NewTelegramMessage(type, <<i>>, dest) : i \in K})

\* m persisted news
ScenarioNews(m, w) ==
    {NewNews([id |-> <<i>>, title |-> [text |-> "t", upper |-> FALSE, padded |-> FALSE],
              publishedAt |-> ScenarioTime(i, w), network |-> "sui"]) : i \in 1..m}

\* a store of up to MaxSelCoins coins, any of them published to the channel
\* or to Twitter (flag and fact), or a store of up to MaxSelNews news of which
\* the k most recent, but for at most one, were posted to the group
InitSelect ==
    /\ enabled = TRUE
    /\ groupId = "group"
    /\ Quiet
    /\ \/ \E n \in 0..MaxSelCoins, w \in {1, 2}, dest \in {ChannelId, Twitter} :
            \E K \in SUBSET (1..n) :
               /\ coins = UNION ScenarioCoins(n, K, dest, w)
               /\ news = {}
               /\ telegramMessages =
                      IF dest = Twitter THEN EmptyBag ELSE ScenarioFacts("launch", K, dest)
               /\ tweets =
                      IF dest = Twitter THEN ScenarioFacts("launch", K, dest) ELSE EmptyBag
       \/ \E m \in 0..MaxSelNews, w \in {1, 2} :
            \E k \in 0..m, hole \in 0..m :
               /\ w = 2 => m <= MaxSelCoins
               /\ coins = {}
               /\ news = ScenarioNews(m, w)
               /\ telegramMessages =
                      ScenarioFacts("news", {i \in 1..m : i > m - k /\ i # hole}, "group")
               /\ tweets = EmptyBag

\* the passes up to their queries
NextSelect ==
    /\ \/ StartMessages(1)
       \/ StartTweets(1)
       \/ StartGroupNews(1)
       \/ FindUnposted(1, ChannelId, "launch", CoinLimit)
       \/ FindUnposted(1, ChannelId, "news", NewsLimit)
       \/ FindUnposted(1, Twitter, "launch", CoinLimit)
       \/ FindUnposted(1, Twitter, "news", NewsLimit)
       \/ SelectGroupNews(1)
    /\ UNCHANGED <<scanner, fetcher>>

SpecSelect == InitSelect /\ [][NextSelect]_vars

\* the scanner after it fetched and cached the blocks 1..k, in that order:
\* up to CacheLimit entries nothing is ever evicted
InitBlock ==
    /\ enabled = TRUE
    /\ groupId = "group"
    /\ coins = {}
    /\ news = {}
    /\ telegramMessages = EmptyBag
    /\ tweets = EmptyBag
    /\ delivered = EmptyBag
    /\ pc = [p \in Procs |-> "idle"]
    /\ loc = [p \in Procs |-> IdleLoc]
    /\ runs = 0
    /\ lastCycle = [n \in {"sui", "bnb"} |-> NoCycle]
    /\ \E k \in (0..2) \cup {CacheLimit - 1, CacheLimit} :
          /\ blockCache = [i \in 1..k |-> i]
          /\ requested = 1..k
    /\ sinceRequest \in {0, MIN_REQUEST_INTERVAL}
    /\ sinceRpc = sinceRequest
    /\ rpcGap = -1
    /\ call = NoCall
    /\ scan = NoScan
    /\ fetch = NoFetch

\* One scan of the BNB chain or of Sui by a new scanner.
SpecScan == InitEmpty /\ [][NextScan]_vars

\* The scanner alone, asked for blocks one call after the other.
SpecBlock == InitBlock /\ [][NextBlock]_vars

\* the events parseSuiEvent is applied to: every combination of payload
\* fields, with and without a type and a transaction digest
ParseEvents ==
    {SuiEvent(x, y, pair, a, b, coin_type, pool_id, type, txDigest, 1, 1) :
        x \in BOOLEAN, y \in BOOLEAN, a \in BOOLEAN, b \in BOOLEAN,
        pair \in {NoAddress, Address(1, FALSE)},
        coin_type \in {NoAddress, Address(2, FALSE)},
        pool_id \in {NoAddress, Address(3, FALSE)},
        type \in {"", "short", "match"},
        txDigest \in {NoAddress, Address(4, FALSE)}}

InitParse ==
    /\ enabled = TRUE
    /\ groupId = "group"
    /\ coins = {}
    /\ news = {}
    /\ telegramMessages = EmptyBag
    /\ tweets = EmptyBag
    /\ delivered = EmptyBag
    /\ pc = [p \in Procs |-> "idle"]
    /\ loc = [p \in Procs |-> IdleLoc]
    /\ runs = 0
    /\ lastCycle = [n \in {"sui", "bnb"} |-> NoCycle]
    /\ blockCache = <<>>
    /\ sinceRequest = MIN_REQUEST_INTERVAL
    /\ sinceRpc = MIN_REQUEST_INTERVAL
    /\ rpcGap = -1
    /\ call = NoCall
    /\ requested = {}
    /\ fetch = NoFetch
    /\ \E ev \in ParseEvents : scan = [NoScan EXCEPT !.kind = "parse", !.logs = <<ev>>]

\* parseSuiEvent is applied to the event
NextParse ==
    /\ scan.kind = "parse"
    /\ scan.pc = "idle"
    /\ scan' = [scan EXCEPT !.pc = "done", !.allCoins = parseSuiEvent(Head(scan.logs))]
    /\ UNCHANGED <<service, fetcher, blockCache, sinceRequest, sinceRpc, rpcGap, call, requested>>

\* parseSuiEvent alone, applied to one event.
SpecParse == InitParse /\ [][NextParse]_vars

\* One getAllNews call of the news service.
SpecNews == InitEmpty /\ [][getAllNews]_vars

(* ------------------------------ claims -------------------------------- *)

Destinations == {Twitter, ChannelId, "group"}
Kinds == {"launch", "news"}

\* the ids of the persisted items of a kind
Ids(type) == {r.id : r \in Collection(type)}

\* the publication facts the store holds for (item, destination)
Facts(dest, type, id) ==
    IF dest = Twitter THEN CopiesIn(NewTweet(type, id), tweets)
    ELSE CopiesIn(NewTelegramMessage(type, id, dest), telegramMessages)

\* the messages the destination accepted for the item
Sent(dest, type, id) == CopiesIn(Delivery(dest, type, id), delivered)

\* the item is in the set the destination's pass selects from
Selectable(dest, type, id) ==
    IF dest \in {Twitter, ChannelId}
    THEN \E r \in Unposted(dest, type) : r.id = id
    ELSE /\ type = "news"
         /\ id \in Ids("news")
         /\ ~isNewsPostedToDestination(id, dest)

\* C1: no item is successfully sent more than once to the same destination,
\* whatever sends and store writes fail.
C1_SentAtMostOnce ==
    \A d \in Destinations, k \in Kinds : \A id \in Ids(k) : Sent(d, k, id) <= 1

\* C2: the store holds at most one publication fact per (item, destination).
C2_OneFactPerPair ==
    \A d \in Destinations, k \in Kinds : \A id \in Ids(k) : Facts(d, k, id) <= 1

\* what the destination knows of the item: the sends, the facts, the flag
Published(dest, type, id) ==
    <<Sent(dest, type, id), Facts(dest, type, id),
      IF dest = "group" THEN FALSE
      ELSE \E r \in Collection(type) : r.id = id /\ Flag(dest, r)>>

\* C3: a step that publishes an item to one destination (a send, the save of
\* its fact, the save of its flag) leaves the item selectable by the pass of
\* every other destination that could select it before.
C3_DestinationsIndependent ==
    [][\A k \in Kinds : \A id \in Ids(k) : \A d \in Destinations :
          Published(d, k, id)' # Published(d, k, id) =>
              \A e \in Destinations \ {d} :
                  Selectable(e, k, id) => Selectable(e, k, id)']_vars

\* C3, its case: a news item with a fact for the group is the one the channel
\* pass selected, and the Twitter pass can still select it
C3_Witness ==
    /\ pc[1] = "send" /\ loc[1].dest = ChannelId /\ loc[1].type = "news"
    /\ Facts("group", "news", Head(loc[1].queue)) = 1
    /\ Selectable(Twitter, "news", Head(loc[1].queue))

\* C4: isTelegramPosted only with a fact for the channel, isPosted only with a
\* Tweet, and no step of processGroupNews changes a flag.
C4_FlagsReflectPrimary ==
    /\ [](\A k \in Kinds : \A r \in Collection(k) :
            /\ r.isTelegramPosted => Facts(ChannelId, k, r.id) >= 1
            /\ r.isPosted => Facts(Twitter, k, r.id) >= 1)
    /\ [][processGroupNews(1) => UNCHANGED <<coins, news>>]_vars

\* C4, its case: the group posted a news item whose flags are still false
\* while the channel pass has set the flag of a coin
C4_Witness ==
    /\ \E n \in news : Facts("group", "news", n.id) = 1
                       /\ ~n.isTelegramPosted /\ ~n.isPosted
    /\ \E c \in coins : c.isTelegramPosted

LimitOf(type) == IF type = "launch" THEN CoinLimit ELSE NewsLimit
TimeOfId(type, id) == TimeOf(CHOOSE r \in Collection(type) : r.id = id)
Smaller(a, b) == IF a < b THEN a ELSE b

\* q lists the L most recent items of U (all of U when it has fewer), most
\* recent first
MostRecentOf(q, U, type, L) ==
    /\ Len(q) = Smaller(L, Cardinality(U))
    /\ \A i \in 1..Len(q) : q[i] \in U
    /\ \A i, j \in 1..Len(q) :
          i < j => q[i] # q[j] /\ TimeOfId(type, q[i]) >= TimeOfId(type, q[j])
    /\ \A id \in U \ {q[i] : i \in 1..Len(q)} :
          \A i \in 1..Len(q) : TimeOfId(type, q[i]) >= TimeOfId(type, id)

\* a channel or Twitter query of invocation 1 returns documents
Selects(dest, type) ==
    /\ pc[1] = "find" /\ loc[1].dest = dest /\ loc[1].type = type
    /\ pc'[1] = "send"

\* C5: the selection of a channel or Twitter pass is min(L, unsent) items,
\* each without a publication fact for the destination, the most recent
\* ones first.
C5_SelectsUnsent ==
    [][\A d \in {ChannelId, Twitter}, k \in Kinds :
          Selects(d, k) =>
              MostRecentOf(loc'[1].queue, {id \in Ids(k) : Facts(d, k, id) = 0},
                           k, LimitOf(k))]_vars

\* C5 with "unsent" read as the flag being false, which is what the queries
\* test: this is what the code does
C5_SelectsUnflagged ==
    [][\A d \in {ChannelId, Twitter}, k \in Kinds :
          Selects(d, k) =>
              MostRecentOf(loc'[1].queue, {r.id : r \in Unposted(d, k)},
                           k, LimitOf(k))]_vars

\* the news without a publication fact for the group
GroupUnsent == {id \in Ids("news") : ~isNewsPostedToDestination(id, groupId)}

\* C6: processGroupNews handles at most one item per invocation, and when a
\* persisted news item has no fact for the group, its selection is the most
\* recent such item.
C6_GroupSelectsMostRecentUnsent ==
    /\ pc[1] \in {"groupSend", "groupRecord"} => Len(loc[1].queue) = 1
    /\ pc[1] = "groupFind" /\ GroupUnsent # {} =>
          \A allNews \in GroupCandidates :
              LET newsToPost == FirstUnposted(allNews, groupId) IN
              /\ newsToPost # <<>>
              /\ MostRecentOf(<<newsToPost[1].id>>, GroupUnsent, "news", 1)

\* the same for the news the query returns: the GroupFetchLimit most recent
C6_GroupSelectsAmongFetched ==
    /\ pc[1] \in {"groupSend", "groupRecord"} => Len(loc[1].queue) = 1
    /\ pc[1] = "groupFind" =>
          \A allNews \in GroupCandidates :
              LET fetched == {allNews[i].id : i \in 1..Len(allNews)}
                  newsToPost == FirstUnposted(allNews, groupId) IN
              GroupUnsent \cap fetched # {} =>
                  /\ newsToPost # <<>>
                  /\ MostRecentOf(<<newsToPost[1].id>>, GroupUnsent \cap fetched, "news", 1)

\* the scenario of C5: 5 unsent and 3 sent coins, and the query returned 2
C5_Scenario ==
    /\ pc[1] = "send" /\ loc[1].type = "launch" /\ Len(loc[1].queue) = 2
    /\ Cardinality(Unposted(loc[1].dest, "launch")) = 5
    /\ Cardinality(coins) = 8

\* the persisted coins of a (contractAddress, network)
CoinsOf(addr, network) ==
    {c \in coins : c.contractAddress = addr /\ c.network = network}

\* C7: after launch-monitoring cycles that do not overlap, no two persisted
\* coins share (contractAddress, network); and a candidate of a cycle whose
\* store calls all succeeded is persisted under its own network, whatever
\* the other network holds for that address.
C7_UniqueByAddressAndNetwork ==
    /\ \A a, b \in coins :
          a.contractAddress = b.contractAddress /\ a.network = b.network => a = b
    /\ \A n \in DOMAIN lastCycle :
          lastCycle[n].ran /\ ~lastCycle[n].err =>
              \A i \in 1..Len(lastCycle[n].data) :
                  CoinsOf(lastCycle[n].data[i].contractAddress, n) # {}

\* one address persisted on both networks
C7_Witness ==
    \E a \in 1..MaxAddr : CoinsOf(a, "sui") # {} /\ CoinsOf(a, "bnb") # {}

\* C8: when two invocations of saveNewCoins interleave on candidates of one
\* (contractAddress, network), at most one record of that key is persisted.
C8_OneRecordPerKey ==
    \A a \in 1..MaxAddr, n \in {"sui", "bnb"} : Cardinality(CoinsOf(a, n)) <= 1

\* String.prototype.toLowerCase then trim: the normalized title
Normalized(title) == Trim(ToLowerCase(title))

\* C9: no two persisted news share a normalized title.
C9_UniqueNormalizedTitle ==
    \A a, b \in news : Normalized(a.title) = Normalized(b.title) => a = b

\* a step persists no coin whose (contractAddress, network) was persisted
NeverReEmitted ==
    \A c \in coins' \ coins : CoinsOf(c.contractAddress, c.network) = {}

Cached(blockNumber) == \E i \in 1..Len(blockCache) : blockCache[i] = blockNumber

\* a live getBlock is issued in this step
LiveFetch == call'.attempts > call.attempts

\* C11: the block cache never holds more than CacheLimit entries.
C11_CacheWithinCapacity == Len(blockCache) <= CacheLimit

\* what the eviction does keep: one entry more than CacheLimit
C11_CacheAtMostOneOver == Len(blockCache) <= CacheLimit + 1

\* C12 as stated: no live getBlock is issued for a block number that an
\* earlier call already asked for.
C12_RepeatedNeverFetched ==
    [][LiveFetch => call.blockNumber \notin requested]_vars

\* C12, amended: no live getBlock is issued for a block number that is in
\* the cache, a call answered from the cache made no attempt, and a call
\* whose fetch returned a block leaves it in the cache.
C12_CachedNeverFetched ==
    /\ [][LiveFetch => ~Cached(call.blockNumber)]_vars
    /\ [](call.pc = "done" /\ call.result = "cached" => call.attempts = 0)
    /\ [](call.pc = "done" /\ call.result = "live" => Cached(call.blockNumber))

\* a block fetched by an earlier call of this behaviour (the cache started
\* with numbers up to CacheLimit at most) is answered from the cache
C12_Witness ==
    /\ call.pc = "done" /\ call.result = "cached" /\ call.attempts = 0
    /\ call.blockNumber \in requested
    /\ call.blockNumber > CacheLimit

\* C13: a getBlockWithCache call makes at most Retries live attempts.
C13_AtMostThreeAttempts == call.attempts <= Retries

\* the delays of the retries after rate-limit errors, as the code waits them
C13_RetryDelays ==
    \A i \in 1..Len(call.waits) : call.waits[i] = 1000 * (i + 1)

\* C14: a call that got no block from the cache or the provider returns a
\* synthetic block.
C14_UnavailableYieldsSynthetic ==
    call.pc = "done" /\ call.result \notin {"cached", "live"} =>
        call.result = "synthetic"

\* C15: every chain RPC call starts at least MIN_REQUEST_INTERVAL after the
\* one before it.
C15_RpcSpacing == rpcGap = -1 \/ rpcGap >= MIN_REQUEST_INTERVAL

\* the scan has returned
Done(kind) == scan.kind = kind /\ scan.pc = "done"

\* C16: whatever log queries of a BNB scan were rejected, the scan reports
\* success once getBlockNumber has returned, every log of the fulfilled
\* queries was handled (decoded into a record or skipped by its decoder),
\* and every record decoded has its address in the output.
C16_FulfilledQueriesKept ==
    /\ [][scan.pc \notin {"idle", "head", "done"} /\ scan'.pc = "done" => scan'.success]_vars
    /\ [](Done("bnb") /\ scan.success =>
            /\ Len(scan.allCoins) + scan.skipped = scan.got
            /\ \A i \in 1..Len(scan.allCoins) : \E j \in 1..Len(scan.data) :
                  scan.data[j].contractAddress = scan.allCoins[i].contractAddress)

\* a scan with a rejected query returned the records of the others
C16_Witness ==
    /\ Done("bnb") /\ scan.success /\ scan.altRuns = 0
    /\ scan.rejected > 0
    /\ scan.data # <<>>

\* C17: the output of a scan holds no two records whose addresses are equal
\* ignoring letter case.
C17_NoAddressTwiceIgnoringCase ==
    scan.pc = "done" =>
        \A i, j \in 1..Len(scan.data) :
            ToLowerCase(scan.data[i].contractAddress)
                = ToLowerCase(scan.data[j].contractAddress) => i = j

\* the same for the BNB scan alone, whose decoders lower-case the address
C17_BnbNoAddressTwice ==
    Done("bnb") =>
        \A i, j \in 1..Len(scan.data) :
            ToLowerCase(scan.data[i].contractAddress)
                = ToLowerCase(scan.data[j].contractAddress) => i = j

\* is a list of records ordered by launchTime, latest first
Descending(data) ==
    \A i, j \in 1..Len(data) : i < j => data[i].launchTime >= data[j].launchTime

\* C18: every successful result of a scan is ordered by launchTime descending.
C18_ResultDescending == scan.pc = "done" /\ scan.success => Descending(scan.data)

\* the same for the results the last-resort detection did not supply
C18_StrategiesDescending ==
    scan.pc = "done" /\ scan.success /\ scan.altRuns = 0 => Descending(scan.data)

\* C19: the last-resort detection runs at most once in a BNB scan; it starts
\* only when the strategies decoded no record, and a scan whose strategies
\* decoded no record does not return without it.
C19_AlternativeIffNoResult ==
    /\ [](scan.altRuns <= 1)
    /\ [][scan'.altRuns # scan.altRuns => scan.altRuns = 0 /\ scan'.allCoins = <<>>]_vars
    /\ [][scan'.kind = "bnb" /\ scan'.pc = "done" /\ scan'.success /\ scan'.altRuns = 0
            => scan'.allCoins # <<>>]_vars

\* the detection is about to run after logs that all failed to decode
C19_Witness == scan.pc = "alt" /\ scan.altRuns = 1 /\ scan.skipped > 0

\* C20: a log that fails to decode is the only one skipped: the logs after
\* it stay to be decoded, the records so far are kept, and at the end every
\* log of the batch is a record or was skipped.
C20_FailureSkipsOneLog ==
    /\ [][scan'.skipped # scan.skipped =>
            /\ scan'.skipped = scan.skipped + 1
            /\ scan.logs # <<>>
            /\ scan'.logs = Tail(scan.logs)
            /\ scan'.allCoins = scan.allCoins]_vars
    /\ [](Done("bnb") /\ scan.success /\ scan.altRuns = 0 =>
            Len(scan.allCoins) = scan.got - scan.skipped)

\* of two logs one failed to decode and the other is a record
C20_Witness ==
    /\ Done("bnb") /\ scan.success /\ scan.altRuns = 0
    /\ scan.got = 2 /\ scan.skipped = 1 /\ Len(scan.allCoins) = 1

\* C21: in a Sui scan, whatever queries fail, every (package, event type)
\* pair is queried, the scan reports success, every event of a fulfilled
\* query was parsed into a record or dropped by parseSuiEvent, and every
\* record parsed has its address in the output.
C21_FailedPairIsolated ==
    /\ [][scan.kind = "sui" /\ scan'.pc = "done" => scan'.success]_vars
    /\ [](Done("sui") =>
            /\ scan.queried = Len(SuiEventQueries)
            /\ Len(scan.allCoins) + scan.dropped = scan.got
            /\ \A i \in 1..Len(scan.allCoins) : \E j \in 1..Len(scan.data) :
                  scan.data[j].contractAddress = scan.allCoins[i].contractAddress)

\* every query of the first pair failed, and the scan returned the records
\* of later pairs
C21_Witness ==
    Done("sui") /\ scan.success /\ scan.failedPair = 1 /\ scan.data # <<>>

\* C22: every record a Sui scan returns comes from an event of the last
\* five minutes, whichever query returned the event.
C22_RecordsWithinWindow ==
    Done("sui") =>
        \A i \in 1..Len(scan.data) : scan.data[i].launchTime >= fiveMinutesAgo

\* the same for the scans all of whose TimeRange queries were fulfilled
C22_TimeRangeWithinWindow ==
    Done("sui") /\ scan.rejected = 0 =>
        \A i \in 1..Len(scan.data) : scan.data[i].launchTime >= fiveMinutesAgo

\* the payload shapes of a Sui event, highest priority first
SuiShapes == <<"token_x", "coin_type_a", "coin_type", "pool_id">>

\* does the payload of an event match a shape
Matches(ev, shape) ==
    CASE shape = "token_x" -> ev.token_x /\ ev.token_y
      [] shape = "coin_type_a" -> ev.coin_type_a /\ ev.coin_type_b
      [] shape = "coin_type" -> ev.coin_type # NoAddress
      [] shape = "pool_id" -> ev.pool_id # NoAddress

\* the shape of highest priority an event matches, "fallback" if none
Highest(ev) ==
    IF \E i \in 1..Len(SuiShapes) : Matches(ev, SuiShapes[i])
    THEN SuiShapes[CHOOSE i \in 1..Len(SuiShapes) :
                       /\ Matches(ev, SuiShapes[i])
                       /\ \A j \in 1..(i - 1) : ~Matches(ev, SuiShapes[j])]
    ELSE "fallback"

\* the symbol a shape gives
SymbolBy(ev, shape) ==
    CASE shape = "token_x" -> "X/Y"
      [] shape = "coin_type_a" -> "A/B"
      [] shape = "coin_type" -> "COIN"
      [] shape = "pool_id" -> "POOL"
      [] OTHER -> IF ev.type \in {"match", "other"} THEN "TYPE" ELSE "UNKNOWN"

\* the address a shape gives: its own address field, and the transaction
\* digest where the shape has none
AddressBy(ev, shape) ==
    CASE shape = "token_x" -> IF ev.pair # NoAddress THEN ev.pair ELSE ev.txDigest
      [] shape = "coin_type_a" -> IF ev.pool_id # NoAddress THEN ev.pool_id ELSE ev.txDigest
      [] shape = "coin_type" -> ev.coin_type
      [] shape = "pool_id" -> ev.pool_id
      [] OTHER -> ev.txDigest

\* C23: parseSuiEvent takes symbol and address from the shape of highest
\* priority the payload matches (token_x/token_y, coin_type_a/coin_type_b,
\* coin_type, pool_id, then the fallback from type and transaction digest),
\* and returns no record exactly when that shape gives no address.
C23_HighestShapeDecides ==
    scan.kind = "parse" /\ scan.pc = "done" =>
        LET ev == scan.logs[1]
            shape == Highest(ev) IN
        IF AddressBy(ev, shape) = NoAddress THEN scan.allCoins = <<>>
        ELSE /\ Len(scan.allCoins) = 1
             /\ scan.allCoins[1].symbol = SymbolBy(ev, shape)
             /\ scan.allCoins[1].contractAddress = AddressBy(ev, shape)

\* an event matching the shapes coin_type and pool_id was parsed
C23_Witness ==
    /\ scan.kind = "parse" /\ scan.pc = "done"
    /\ Matches(scan.logs[1], "coin_type") /\ Matches(scan.logs[1], "pool_id")
    /\ ~Matches(scan.logs[1], "token_x") /\ ~Matches(scan.logs[1], "coin_type_a")
    /\ scan.allCoins # <<>> /\ scan.allCoins[1].symbol = "COIN"

\* C30: in scanSuiSpecificEvent a module query is issued only after the
\* TimeRange query of the pair failed; a pair whose TimeRange query failed
\* gets one query for every known module of its package, whatever module
\* queries fail, and a pair whose TimeRange query was fulfilled gets none.
C30_ModulesIffTimeRangeFailed ==
    /\ [][scan.kind = "sui" /\ scan'.pair.moduleQueries > scan.pair.moduleQueries
            => scan.pair.timeRange = "failed"]_vars
    /\ [](scan.kind = "sui" /\ scan.pc \in {"events", "done"} /\ scan.queried > 0 =>
            scan.pair.moduleQueries =
                IF scan.pair.timeRange = "failed"
                THEN Len(getKnownModules(scan.pair.package)) ELSE 0)

\* a pair was scanned whose TimeRange query failed, whose first module
\* query failed too, and one of whose later module queries returned a record
C30_Witness ==
    /\ scan.kind = "sui" /\ scan.pc = "events" /\ scan.queried = 1
    /\ scan.pair.timeRange = "failed" /\ scan.rejected >= 2
    /\ scan.pair.fulfilled >= 1 /\ scan.allCoins # <<>>

\* has the getAllNews call got the result of getGeneralCryptoNews
GeneralReturned == fetch.pc \in {"sui", "done"}

\* did a source return at least one item
NonEmpty(result) == result.success /\ result.data # <<>>

NormalizedTitles(items) == {Normalized(items[i].title) : i \in 1..Len(items)}

\* C25: getSuiNews returns only when both of its sources have answered, and
\* then reports success; every item it returns is an item of a source that
\* succeeded, and every title of a source that succeeded is in the result.
C25_MergesWhatSucceeded ==
    /\ fetch.pc = "sui" => fetch.sui = Pending
    /\ fetch.pc = "done" =>
          /\ fetch.newsApi # Pending /\ fetch.googleRss # Pending
          /\ fetch.sui.success
          /\ \A i \in 1..Len(fetch.sui.data) :
                \E r \in {fetch.newsApi, fetch.googleRss} :
                   r.success /\ \E j \in 1..Len(r.data) : r.data[j] = fetch.sui.data[i]
          /\ \A r \in {fetch.newsApi, fetch.googleRss} :
                r.success => NormalizedTitles(r.data) \subseteq NormalizedTitles(fetch.sui.data)

\* one source failed and the call returned the items of the other
C25_Witness ==
    /\ fetch.pc = "done"
    /\ ~fetch.newsApi.success /\ fetch.googleRss.success
    /\ fetch.sui.success /\ Len(fetch.sui.data) = MaxFetch

\* no two items of a list share a normalized title
UniqueTitles(items) ==
    \A i, j \in 1..Len(items) :
        Normalized(items[i].title) = Normalized(items[j].title) => i = j

\* is a list of items ordered by publishedAt, latest first
DescendingPublishedAt(items) ==
    \A i, j \in 1..Len(items) : i < j => items[i].publishedAt >= items[j].publishedAt

\* C26: in the result of getAllNews no two items of the combined list, of
\* the general list or of the Sui list share a normalized title, the
\* combined list has one item per normalized title fetched, and it is
\* ordered by publish time, latest first.
C26_DeduplicatedAcrossPaths ==
    fetch.pc = "done" =>
        /\ UniqueTitles(fetch.combined)
        /\ UniqueTitles(fetch.generalNews)
        /\ UniqueTitles(fetch.suiNews)
        /\ Len(fetch.combined) =
              Cardinality(NormalizedTitles(fetch.generalNews \o
                              Merge(fetch.newsApi, fetch.googleRss)))
        /\ DescendingPublishedAt(fetch.combined)

\* what holds of it: the Sui list has no normalized title twice, and the
\* combined list holds the general and the Sui list, latest first
C26_SuiListDeduplicated ==
    fetch.pc = "done" =>
        /\ UniqueTitles(fetch.suiNews)
        /\ Len(fetch.combined) = Len(fetch.generalNews) + Len(fetch.suiNews)
        /\ DescendingPublishedAt(fetch.combined)

\* is invocation p in the launch sub-pass of a channel or Twitter pass
InLaunchSubPass(p) ==
    /\ pc[p] \in {"find", "send", "record", "flag"}
    /\ loc[p].dest \in {Twitter, ChannelId}
    /\ loc[p].type = "launch"

\* C27: whatever fails in the launch sub-pass of a publish cycle, its query
\* for the unsent launches included, the cycle does not end there: the news
\* sub-pass of the same cycle runs.
C27_LaunchFailureKeepsNews ==
    [][\A p \in Procs : InLaunchSubPass(p) => pc'[p] # "idle"]_vars

\* the same for the failures past the query: of a send, of the save of a
\* fact, of the save of a flag
C27_ItemFailureKeepsNews ==
    [][\A p \in Procs : InLaunchSubPass(p) /\ pc[p] # "find" => pc'[p] # "idle"]_vars

\* C28: every publication fact of (item, destination) has a send of the item
\* the destination accepted, and no step removes or changes a fact.
C28_FactOnlyAfterSend ==
    /\ [](\A d \in Destinations, k \in Kinds : \A id \in Ids(k) :
            Facts(d, k, id) <= Sent(d, k, id))
    /\ [][/\ \A f \in BagToSet(telegramMessages) :
                CopiesIn(f, telegramMessages') >= CopiesIn(f, telegramMessages)
          /\ \A f \in BagToSet(tweets) :
                CopiesIn(f, tweets') >= CopiesIn(f, tweets)]_vars

\* a fact was saved for an item after its send, and a later pass has run
C28_Witness ==
    /\ runs = MaxRuns
    /\ \E d \in Destinations, k \in Kinds : \E id \in Ids(k) :
          Facts(d, k, id) = 1 /\ Sent(d, k, id) = 1

\* a coin record but for its publication flags
Unflagged(c) == [c EXCEPT !.isPosted = FALSE, !.isTelegramPosted = FALSE]

\* invocation p is saving the flag of destination dest on the coin
SavingFlag(p, dest, c) ==
    /\ pc[p] = "flag" /\ loc[p].dest = dest /\ loc[p].type = "launch"
    /\ Head(loc[p].queue) = c.id

\* C29: every step keeps every persisted coin, with every field but the
\* flags as it was; a flag never goes back to false, and goes to true only
\* in the flag save of the pass of its own destination. A monitoring cycle
\* changes no persisted coin.
C29_CoinsOnlyFlagged ==
    [][\A c \in coins : \E d \in coins' :
          /\ Unflagged(d) = Unflagged(c)
          /\ c.isPosted => d.isPosted
          /\ c.isTelegramPosted => d.isTelegramPosted
          /\ d.isPosted # c.isPosted =>
                /\ d.isTelegramPosted = c.isTelegramPosted
                /\ \E p \in Procs : SavingFlag(p, Twitter, c)
          /\ d.isTelegramPosted # c.isTelegramPosted =>
                /\ d.isPosted = c.isPosted
                /\ \E p \in Procs : SavingFlag(p, ChannelId, c)
          /\ (\E p \in Procs : pc[p] \in {"scan", "findOne", "insert"}) => d = c]_vars

\* a coin published to the channel was detected again by a monitoring
\* cycle, which skipped it
C29_Witness ==
    /\ \E n \in {"sui", "bnb"} :
          /\ lastCycle[n].ran /\ lastCycle[n].saved = 0
          /\ \E i \in 1..Len(lastCycle[n].data) : \E c \in coins :
                /\ c.contractAddress = lastCycle[n].data[i].contractAddress
                /\ c.network = n
                /\ c.isTelegramPosted /\ ~c.isPosted

(* ------------------------ claims: later sitting ------------------------ *)

\* the count saveNewCoins holds after a step of invocation p
SavedAfter(p) ==
    IF pc'[p] = "findOne" THEN loc'[p].saved ELSE lastCycle'[loc[p].net].saved

\* every step that persists coins persists one, the candidate at hand, whose
\* (contractAddress, network) was not persisted, and counts it; and the
\* count of saveNewCoins changes in no other step
InsertsCounted ==
    /\ coins' # coins =>
          \E p \in Procs :
             /\ pc[p] = "insert"
             /\ coins' = coins \cup {NewCoin(Head(loc[p].queue))}
             /\ CoinsOf(Head(loc[p].queue).contractAddress, loc[p].net) = {}
             /\ SavedAfter(p) = loc[p].saved + 1
    /\ \A p \in Procs :
          pc[p] \in {"findOne", "insert"} /\ coins' = coins =>
              SavedAfter(p) = loc[p].saved

\* the candidates of the last cycle of a network, as saveNewCoins got them
Candidates(n) == filterNewPairs(lastCycle[n].data)

\* the first candidate of the last cycle of a network with the key of the
\* i-th one
FirstOfKey(n, i) ==
    LET s == Candidates(n) IN
    s[CHOOSE j \in 1..i :
          /\ s[j].contractAddress = s[i].contractAddress
          /\ \A k \in 1..(j - 1) : s[k].contractAddress # s[i].contractAddress]

\* the keys of the candidates of the last cycle of a network
KeysOf(n) == {Candidates(n)[i].contractAddress : i \in 1..Len(Candidates(n))}

AtItem(p) ==
    /\ pc[p] \in {"send", "record", "flag"}
    /\ loc[p].dest \in {Twitter, ChannelId}

\* C32: in a channel or Twitter pass, whatever a step on a selected item
\* does (the send fails, the save of the fact or of the flag throws), the
\* pass stays at that item or goes on to send the next selected item: no
\* selected item is left out.
C32_RemainingItemsAttempted ==
    [][\A p \in Procs : AtItem(p) /\ Len(loc[p].queue) > 1 =>
          /\ AtItem(p)'
          /\ \/ loc'[p].queue = loc[p].queue /\ pc'[p] # "send"
             \/ loc'[p].queue = Tail(loc[p].queue) /\ pc'[p] = "send"]_vars

\* the send of the first of two selected launches failed, and the pass is
\* about to send the second
C32_Witness ==
    /\ pc[1] = "send" /\ loc[1].type = "launch" /\ Len(loc[1].queue) = 1
    /\ runs = 1 /\ delivered = EmptyBag
    /\ Cardinality(Unposted(loc[1].dest, "launch")) = CoinLimit

\* C33: with Telegram disabled, no message is delivered to the channel or to
\* a group, no TelegramMessage is saved and no isTelegramPosted is set,
\* whatever passes and cycles run.
C33_DisabledTelegramDoesNothing ==
    ~enabled =>
        /\ \A m \in BagToSet(delivered) : m.dest = Twitter
        /\ telegramMessages = EmptyBag
        /\ \A r \in coins \cup news : ~r.isTelegramPosted

\* with Telegram disabled and Telegram passes having run, a Twitter pass
\* published a coin and a monitoring cycle persisted one
C33_Witness ==
    /\ ~enabled
    /\ \E c \in coins : c.isPosted /\ Facts(Twitter, "launch", c.id) = 1
    /\ \E n \in DOMAIN lastCycle : lastCycle[n].ran /\ lastCycle[n].saved > 0

\* the block numbers a step removes from the cache
Evicted == {blockCache[i] : i \in 1..Len(blockCache)}
               \ {blockCache'[i] : i \in 1..Len(blockCache')}

\* C34: a step that removes an entry from the block cache removes one, the
\* entry inserted earliest, while it inserts the block it fetched; the other
\* entries keep their order, and a call answered from the cache leaves the
\* cache as it is.
C34_EvictsEarliestOnly ==
    /\ [][Evicted # {} =>
            /\ Evicted = {blockCache[1]}
            /\ blockCache' = Append(Tail(blockCache), call.blockNumber)]_vars
    /\ [][call'.result = "cached" => blockCache' = blockCache]_vars

\* the cache was over CacheLimit at an insertion and has lost its first entry
C34_Witness ==
    /\ Len(blockCache) = CacheLimit + 1
    /\ blockCache[1] = 2
    /\ call.pc = "done" /\ call.result = "live"

\* the block numbers a step adds to the cache
Inserted == {blockCache'[i] : i \in 1..Len(blockCache')}
                \ {blockCache[i] : i \in 1..Len(blockCache)}

\* C38: a step adds an entry to the block cache only for the number of the
\* call under way and only when getBlock returned a block for it; a call
\* that ends with the made-up block, or with null, adds none.
C38_OnlyProviderBlocksCached ==
    /\ [][Inserted # {} =>
            /\ Inserted = {call.blockNumber}
            /\ call.pc = "fetch"
            /\ call'.result = "live"]_vars
    /\ [][call'.result \in {"synthetic", "null"} => blockCache' = blockCache]_vars

\* a call ended with the made-up block, which is not in the cache, after an
\* earlier call had its fetched block cached
C38_Witness ==
    /\ call.pc = "done" /\ call.result = "synthetic"
    /\ ~Cached(call.blockNumber)
    /\ \E b \in requested : b > CacheLimit /\ Cached(b)

\* C35: when two invocations of the channel pass, or of the Twitter pass,
\* overlap, the channel (Twitter) accepts no launch more than once.
C35_OverlapSendsOnce ==
    \A d \in {Twitter, ChannelId} : \A id \in Ids("launch") : Sent(d, "launch", id) <= 1

\* the same for the launches every accepted send of which was recorded and
\* flagged: the store writes all succeeded
C35_OverlapSendsOnceWhenSaved ==
    \A d \in {Twitter, ChannelId} : \A c \in coins :
        Flag(d, c) /\ Facts(d, "launch", c.id) = Sent(d, "launch", c.id) =>
            Sent(d, "launch", c.id) <= 1

\* C36: when a Twitter pass and a channel pass interleave, no step sets a
\* flag of a coin back to false, and the flag save of a pass, unless its
\* write throws, leaves the flag of its destination true on its item: after
\* both saves both flags are true.
C36_NoFlagUpdateLost ==
    /\ [][\A c \in coins : \E d \in coins' :
            /\ d.id = c.id
            /\ c.isPosted => d.isPosted
            /\ c.isTelegramPosted => d.isTelegramPosted]_vars
    /\ [][\A p \in Procs :
            pc[p] = "flag" /\ loc[p].type = "launch" /\ loc'[p] # loc[p] =>
                \/ coins' = coins
                \/ \E d \in coins' : d.id = Head(loc[p].queue) /\ Flag(loc[p].dest, d)]_vars

\* a Twitter pass and a channel pass are under way at once, and a coin has
\* both flags
C36_Witness ==
    /\ pc[1] # "idle" /\ pc[2] # "idle"
    /\ {loc[1].dest, loc[2].dest} = {Twitter, ChannelId}
    /\ \E c \in coins : c.isPosted /\ c.isTelegramPosted

\* the destination accepted the record, and its fact and its flag are saved
PublishedTo(dest, type, r) ==
    /\ Sent(dest, type, r.id) >= 1
    /\ Facts(dest, type, r.id) >= 1
    /\ Flag(dest, r)

EverythingPublished ==
    \A d \in {ChannelId, Twitter}, k \in Kinds :
        \A r \in Collection(k) : PublishedTo(d, k, r)

\* C37: with no new item and every send and store operation succeeding, the
\* channel passes and the Twitter passes reach, and then stay in, a state
\* where every persisted coin and news item is published to the channel and
\* to Twitter.
C37_EventuallyAllPublished == <>[]EverythingPublished

\* coins and more news than one pass takes, all published to both
\* destinations
C37_Witness ==
    /\ coins # {} /\ Cardinality(news) > NewsLimit
    /\ EverythingPublished

\* the document saveNews is about to insert, its id not yet in the store
AboutToInsert(p) ==
    /\ pc[p] = "newsInsert"
    /\ UniqueId(news, Head(loc[p].queue).id)

\* C39: in a monitorNews cycle the items of a path are saved whatever the
\* other path returned: the insert of an item whose id is not yet stored
\* can succeed.
C39_OtherPathSaved ==
    \A p \in Procs :
        AboutToInsert(p) =>
            ENABLED (NextMonitor /\ news' = news \cup {NewNews(Head(loc[p].queue))})

\* what holds: the same for the items of the Sui path
C39_SuiPathSaved ==
    \A p \in Procs :
        AboutToInsert(p) /\ Head(loc[p].queue).network = "sui" =>
            ENABLED (NextMonitor /\ news' = news \cup {NewNews(Head(loc[p].queue))})

\* what holds: no item of the general path is ever persisted
C39_GeneralNeverSaved == \A n \in news : n.network # "general"

\* what holds: getAllNews ends with the list of a failed path empty
C39_FailedPathIsEmpty ==
    fetch.pc = "done" =>
        /\ ~fetch.general.success => fetch.generalNews = <<>>
        /\ ~fetch.newsApi.success /\ ~fetch.googleRss.success => fetch.suiNews = <<>>

====
